---------------------------- MODULE Spec2Model ----------------------------
(***************************************************************************)
(* The extractive summarizer of src/code/logic/summary.c (fish_summary and *)
(* its helpers split_sentences, trim, tokenize_sentence, vocab_find and    *)
(* vocab_add), as a state machine.                                         *)
(*                                                                         *)
(* Characters are one-character strings; a C string is a sequence of       *)
(* characters and a C buffer is such a sequence that holds its terminator  *)
(* NUL explicitly.  C indices are 0-based, the model's are 1-based.        *)
(*                                                                         *)
(* Scores are kept exact: a sum of tf * ln(nsent / (1 + df)) is the pair   *)
(* <<n, d>> that stands for ln(nsent^n / d); two such values are compared  *)
(* by cross-multiplication.  The rounding of the C doubles is not          *)
(* modelled.                                                               *)
(***************************************************************************)
EXTENDS Integers, Sequences, FiniteSets, TLC

(***************************************************************************)
(* Program constants (summary.c:16-20).  MAX_INPUT_SIZE keeps its value;   *)
(* the four table sizes are scaled down so that documents of a few dozen   *)
(* characters reach them (2048, 2048, 64 and 65536 in the source).         *)
(***************************************************************************)
MAX_INPUT_SIZE == 262144
MAX_SENTENCES == 11
MAX_WORDS_SENT == 4
MAX_WORD_LEN == 7
MAX_VOCAB == 10

(***************************************************************************)
(* Bounds of the model.                                                    *)
(***************************************************************************)
\* longest free tail appended to a base document
MaxTail == 2
\* depths range over -NegDepth .. MaxDepth
NegDepth == 1
MaxDepth == 5
\* longest tail appended to a document that is summarized more than once
SessionTail == 1

---------------------------------------------------------------------------
(* Characters and <ctype.h> in the C locale.                               *)

NUL == "NUL"

LowerSeq == << "a", "b", "c", "d", "e", "f", "g", "h", "i", "j", "k", "l", "m",
               "n", "o", "p", "q", "r", "s", "t", "u", "v", "w", "x", "y", "z" >>
UpperSeq == << "A", "B", "C", "D", "E", "F", "G", "H", "I", "J", "K", "L", "M",
               "N", "O", "P", "Q", "R", "S", "T", "U", "V", "W", "X", "Y", "Z" >>
DigitSeq == << "0", "1", "2", "3", "4", "5", "6", "7", "8", "9" >>

Range(s) == { s[x] : x \in DOMAIN s }

isspace(c) == c \in { " ", "\t", "\n", "\r", "\f" }

isalnum(c) == c \in Range(LowerSeq) \cup Range(UpperSeq) \cup Range(DigitSeq)

tolower(c) ==
    IF c \in Range(UpperSeq)
    THEN LowerSeq[CHOOSE x \in DOMAIN UpperSeq : UpperSeq[x] = c]
    ELSE c

\* the sentence boundaries tested at summary.c:48
IsBoundary(c) == c \in { ".", "?", "!", "\n" }

---------------------------------------------------------------------------
(* C strings inside a buffer.                                              *)

\* strlen(buf + (s-1)): characters from position s up to the first NUL
RECURSIVE strlen(_, _)
strlen(buf, s) == IF buf[s] = NUL THEN 0 ELSE 1 + strlen(buf, s + 1)

\* the string a char* at position s denotes (what strdup copies)
cstring_dup(buf, s) == SubSeq(buf, s, s + strlen(buf, s) - 1)

\* while (*p && isspace(*p)) p++;
RECURSIVE SkipSpace(_, _)
SkipSpace(buf, p) ==
    IF buf[p] # NUL /\ isspace(buf[p]) THEN SkipSpace(buf, p + 1) ELSE p

\* while (end > s && isspace(*end)) { *end = '\0'; end--; }
RECURSIVE TrimTail(_, _, _)
TrimTail(buf, s, end) ==
    IF end > s /\ isspace(buf[end])
    THEN TrimTail([buf EXCEPT ![end] = NUL], s, end - 1)
    ELSE buf

\* mutant: trim that does not skip the leading whitespace
trim_noskip(buf, start) ==
    IF buf[start] = NUL
    THEN [s |-> start, buf |-> buf]
    ELSE [s |-> start, buf |-> TrimTail(buf, start, start + strlen(buf, start) - 1)]

\* mutant: trim that leaves the trailing whitespace
trim_notail(buf, start) == [s |-> SkipSpace(buf, start), buf |-> buf]

\* trim(s): the returned pointer and the buffer as trim leaves it
trim(buf, start) ==
    LET s == SkipSpace(buf, start)
    IN  IF buf[s] = NUL
        THEN [s |-> s, buf |-> buf]
        ELSE [s |-> s, buf |-> TrimTail(buf, s, s + strlen(buf, s) - 1)]

\* one emission: if (*s) sentences[count++] = dup(s);
Emit(sents, t) ==
    IF t.buf[t.s] # NUL THEN Append(sents, cstring_dup(t.buf, t.s)) ELSE sents

\* mutant: the while loop of split_sentences without the last chunk
RECURSIVE SplitLoop_nolast(_, _, _, _, _)
SplitLoop_nolast(buf, p, start, sents, max_sentences) ==
    IF buf[p] # NUL /\ Len(sents) < max_sentences
    THEN IF IsBoundary(buf[p])
         THEN LET save == buf[p + 1]
                  t    == trim([buf EXCEPT ![p + 1] = NUL], start)
                  back == [t.buf EXCEPT ![p + 1] = save]
                  q    == SkipSpace(back, p + 1)
              IN  SplitLoop_nolast(back, q, q, Emit(sents, t), max_sentences)
         ELSE SplitLoop_nolast(buf, p + 1, start, sents, max_sentences)
    ELSE [sentences |-> sents, content |-> buf]

\* the while loop of split_sentences and the last chunk after it
RECURSIVE SplitLoop(_, _, _, _, _)
SplitLoop(buf, p, start, sents, max_sentences) ==
    IF buf[p] # NUL /\ Len(sents) < max_sentences
    THEN IF IsBoundary(buf[p])
         THEN LET save == buf[p + 1]
                  t    == trim([buf EXCEPT ![p + 1] = NUL], start)
                  back == [t.buf EXCEPT ![p + 1] = save]
                  q    == SkipSpace(back, p + 1)
              IN  SplitLoop(back, q, q, Emit(sents, t), max_sentences)
         ELSE SplitLoop(buf, p + 1, start, sents, max_sentences)
    ELSE IF buf[start] # NUL /\ Len(sents) < max_sentences
         THEN LET t == trim(buf, start)
              IN  [sentences |-> Emit(sents, t), content |-> t.buf]
         ELSE [sentences |-> sents, content |-> buf]

\* split_sentences(content, sentences, max_sentences): the sentences, in
\* order (their number is the return value), and the buffer as it is left
split_sentences(content, max_sentences) ==
    SplitLoop(content, 1, 1, << >>, max_sentences)

---------------------------------------------------------------------------
(* tokenize_sentence                                                       *)

\* mutant: the for loop stops at i < len, before the terminator
RECURSIVE TokenLoop_noflush(_, _, _, _, _)
TokenLoop_noflush(sent, i, buf, words, max_words) ==
    IF i <= Len(sent) /\ Len(words) < max_words
    THEN LET c == sent[i]
         IN  IF isalnum(c)
             THEN TokenLoop_noflush(sent, i + 1,
                                    IF Len(buf) < MAX_WORD_LEN - 1
                                    THEN Append(buf, tolower(c)) ELSE buf,
                                    words, max_words)
             ELSE IF Len(buf) > 0
                  THEN TokenLoop_noflush(sent, i + 1, << >>, Append(words, buf), max_words)
                  ELSE TokenLoop_noflush(sent, i + 1, buf, words, max_words)
    ELSE words

\* mutant: a full buffer is flushed and the run goes on as a new token
RECURSIVE TokenLoop_wrap(_, _, _, _, _)
TokenLoop_wrap(sent, i, buf, words, max_words) ==
    IF i <= Len(sent) + 1 /\ Len(words) < max_words
    THEN LET c == IF i = Len(sent) + 1 THEN NUL ELSE sent[i]
         IN  IF isalnum(c)
             THEN IF Len(buf) < MAX_WORD_LEN - 1
                  THEN TokenLoop_wrap(sent, i + 1, Append(buf, tolower(c)),
                                      words, max_words)
                  ELSE TokenLoop_wrap(sent, i + 1, << tolower(c) >>,
                                      Append(words, buf), max_words)
             ELSE IF Len(buf) > 0
                  THEN TokenLoop_wrap(sent, i + 1, << >>, Append(words, buf), max_words)
                  ELSE TokenLoop_wrap(sent, i + 1, buf, words, max_words)
    ELSE words

\* the for loop over i = 0 .. len (the terminator included), 1-based here
RECURSIVE TokenLoop(_, _, _, _, _)
TokenLoop(sent, i, buf, words, max_words) ==
    IF i <= Len(sent) + 1 /\ Len(words) < max_words
    THEN LET c == IF i = Len(sent) + 1 THEN NUL ELSE sent[i]
         IN  IF isalnum(c)
             THEN TokenLoop(sent, i + 1,
                            IF Len(buf) < MAX_WORD_LEN - 1
                            THEN Append(buf, tolower(c)) ELSE buf,
                            words, max_words)
             ELSE IF Len(buf) > 0
                  THEN TokenLoop(sent, i + 1, << >>, Append(words, buf), max_words)
                  ELSE TokenLoop(sent, i + 1, buf, words, max_words)
    ELSE words

tokenize_sentence(sent, max_words) == TokenLoop(sent, 1, << >>, << >>, max_words)

---------------------------------------------------------------------------
(* Vocabulary helpers and exact scores.                                    *)

\* arr[pos] = val on an array whose cells past Len(arr) were never written
SetAt(arr, pos, val) ==
    IF pos <= Len(arr) THEN [arr EXCEPT ![pos] = val] ELSE Append(arr, val)

\* mutant: a lookup that compares the word with the last entry only
vocab_find_last(vocab, vcount, word) ==
    IF vcount > 0 /\ vocab[vcount].word = word THEN vcount - 1 ELSE -1

\* vocab_find: the 0-based index of word among the first vcount entries, or -1
vocab_find(vocab, vcount, word) ==
    IF \E v \in 1..vcount : vocab[v].word = word
    THEN (CHOOSE v \in 1..vcount :
             /\ vocab[v].word = word
             /\ \A u \in 1..(v - 1) : vocab[u].word # word) - 1
    ELSE -1

\* mutant: a new entry starts with one occurrence already counted
vocab_add_one(vocab, vcount, word) ==
    LET idx == vocab_find(vocab, vcount, word)
    IN  IF idx >= 0 THEN [idx |-> idx, vocab |-> vocab, vcount |-> vcount]
        ELSE IF vcount >= MAX_VOCAB
             THEN [idx |-> -1, vocab |-> vocab, vcount |-> vcount]
             ELSE [idx    |-> vcount,
                   vocab  |-> SetAt(vocab, vcount + 1,
                                    [word |-> word, df |-> 0, tf_total |-> 1]),
                   vcount |-> vcount + 1]

\* vocab_add: the index returned and the table and count as it leaves them
vocab_add(vocab, vcount, word) ==
    LET idx == vocab_find(vocab, vcount, word)
    IN  IF idx >= 0 THEN [idx |-> idx, vocab |-> vocab, vcount |-> vcount]
        ELSE IF vcount >= MAX_VOCAB
             THEN [idx |-> -1, vocab |-> vocab, vcount |-> vcount]
             ELSE [idx    |-> vcount,
                   vocab  |-> SetAt(vocab, vcount + 1,
                                    [word |-> word, df |-> 0, tf_total |-> 0]),
                   vcount |-> vcount + 1]

RECURSIVE Pow(_, _)
Pow(b, e) == IF e = 0 THEN 1 ELSE b * Pow(b, e - 1)

\* 0.0 as an exact score
ZeroScore == [n |-> 0, d |-> 1]

\* mutant: an idf that leaves the document frequency out, log(nsent)
IdfOf_nodf(df) == [n |-> 1, d |-> 1]

\* mutant: an idf without the smoothing term, log(nsent / df)
IdfOf_unsmoothed(df) == [n |-> 1, d |-> df]

\* mutant: an idf smoothed by two, log(nsent / (2 + df))
IdfOf_oversmoothed(df) == [n |-> 1, d |-> 2 + df]

\* log((double)nsent / (1.0 + (double)df)) as an exact score
IdfOf(df) == [n |-> 1, d |-> 1 + df]

\* mutant: the idf of a term is added once, whatever its count
AddScore_once(score, tf, w) == [n |-> score.n + w.n, d |-> score.d * w.d]

\* score + (double)tf * w
AddScore(score, tf, w) == [n |-> score.n + tf * w.n, d |-> score.d * Pow(w.d, tf)]

\* best_score = -1e300: below every score a document can reach, a score
\* being at least -MAX_WORDS_SENT * ln(MAX_SENTENCES + 1)
NEG_HUGE == [n |-> -1, d |-> 1]

\* a > b on doubles, for scores of a document of N sentences
ScoreGt(a, b, N) ==
    IF b.n < 0 THEN a.n >= 0
    ELSE IF a.n < 0 THEN FALSE
    ELSE IF a.n >= b.n THEN Pow(N, a.n - b.n) * b.d > a.d
    ELSE b.d > Pow(N, b.n - a.n) * a.d

\* the score of one sentence: the loop over its (vidx, tf) pairs
RECURSIVE SumPairs(_, _, _, _)
SumPairs(pairs, z, score, idf) ==
    IF z > Len(pairs) THEN score
    ELSE SumPairs(pairs, z + 1, AddScore(score, pairs[z][2], idf[pairs[z][1] + 1]), idf)

\* mutant: the scan keeps the first sentence that is not selected, whatever
\* its score
RECURSIVE ScanBest_first(_, _, _, _, _, _)
ScanBest_first(i, best, best_score, sent_score, selected_idx, nsent) ==
    IF i >= nsent THEN best
    ELSE IF selected_idx[i + 1] # 0 \/ best >= 0
         THEN ScanBest_first(i + 1, best, best_score, sent_score, selected_idx, nsent)
         ELSE ScanBest_first(i + 1, i, sent_score[i + 1], sent_score, selected_idx, nsent)

\* mutant: the scan compares with >= and so keeps the last of equal scores
RECURSIVE ScanBest_last(_, _, _, _, _, _)
ScanBest_last(i, best, best_score, sent_score, selected_idx, nsent) ==
    IF i >= nsent THEN best
    ELSE IF selected_idx[i + 1] # 0
         THEN ScanBest_last(i + 1, best, best_score, sent_score, selected_idx, nsent)
         ELSE IF ~ScoreGt(best_score, sent_score[i + 1], nsent)
              THEN ScanBest_last(i + 1, i, sent_score[i + 1], sent_score, selected_idx, nsent)
              ELSE ScanBest_last(i + 1, best, best_score, sent_score, selected_idx, nsent)

\* the inner scan of one greedy round: the 0-based index kept in best
RECURSIVE ScanBest(_, _, _, _, _, _)
ScanBest(i, best, best_score, sent_score, selected_idx, nsent) ==
    IF i >= nsent THEN best
    ELSE IF selected_idx[i + 1] # 0
         THEN ScanBest(i + 1, best, best_score, sent_score, selected_idx, nsent)
         ELSE IF ScoreGt(sent_score[i + 1], best_score, nsent)
              THEN ScanBest(i + 1, i, sent_score[i + 1], sent_score, selected_idx, nsent)
              ELSE ScanBest(i + 1, best, best_score, sent_score, selected_idx, nsent)

\* mutant: a depth the mapping does not list falls back to one sentence
MappedK_listed(depth) ==
    IF depth <= 1 THEN 1
    ELSE IF depth = 2 THEN 3
    ELSE IF depth = 3 THEN 5
    ELSE IF depth = 4 THEN 10
    ELSE 1

\* depth -> the number of sentences asked for
MappedK(depth) ==
    IF depth <= 1 THEN 1
    ELSE IF depth = 2 THEN 3
    ELSE IF depth = 3 THEN 5
    ELSE 10

\* K after  if (K > nsent) K = nsent;
ClampK(K, nsent) == IF K > nsent THEN nsent ELSE K

\* mutant: the selected positions are collected from the last to the first
RECURSIVE CollectOrder_desc(_, _, _, _)
CollectOrder_desc(i, nsent, selected_idx, acc) ==
    IF i >= nsent THEN acc
    ELSE CollectOrder_desc(i + 1, nsent, selected_idx,
                           IF selected_idx[i + 1] # 0 THEN << i >> \o acc ELSE acc)

\* the positions i < nsent with selected_idx[i] set, ascending (0-based)
RECURSIVE CollectOrder(_, _, _, _)
CollectOrder(i, nsent, selected_idx, acc) ==
    IF i >= nsent THEN acc
    ELSE CollectOrder(i + 1, nsent, selected_idx,
                      IF selected_idx[i + 1] # 0 THEN Append(acc, i) ELSE acc)

---------------------------------------------------------------------------
(* fish_summary from the read to out_order as one function of the file's   *)
(* content and of depth, for a call that is refused no allocation: the     *)
(* loops of the actions below, run to their end.                           *)

\* the token loop of one sentence from token t on; st holds vocab, vcount,
\* idx_list, count_list and unique_indices
RECURSIVE TokenFold(_, _, _)
TokenFold(tokens, t, st) ==
    IF t >= Len(tokens) THEN st
    ELSE LET word  == tokens[t + 1]
             found == vocab_find(st.vocab, st.vcount, word)
             a     == vocab_add(st.vocab, st.vcount, word)
             vidx  == IF found < 0 THEN a.idx ELSE found
             voc1  == IF found < 0 THEN a.vocab ELSE st.vocab
             z     == IF \E y \in 1..Len(st.idx_list) : st.idx_list[y] = vidx
                      THEN CHOOSE y \in 1..Len(st.idx_list) : st.idx_list[y] = vidx
                      ELSE 0
         IN  IF word = << >> THEN TokenFold(tokens, t + 1, st)
             ELSE IF vidx < 0 THEN st
             ELSE TokenFold(tokens, t + 1,
                    [vocab  |-> [voc1 EXCEPT ![vidx + 1].tf_total = @ + 1],
                     vcount |-> IF found < 0 THEN a.vcount ELSE st.vcount,
                     idx_list |-> IF z > 0 THEN st.idx_list
                                  ELSE Append(st.idx_list, vidx),
                     count_list |-> IF z > 0
                                    THEN [st.count_list EXCEPT ![z] = @ + 1]
                                    ELSE Append(st.count_list, 1),
                     unique_indices |-> IF z > 0 THEN st.unique_indices
                                        ELSE Append(st.unique_indices, vidx)])

\* the sentence loop from sentence i on; st holds vocab, vcount and
\* sent_word_counts
RECURSIVE SentenceFold(_, _, _)
SentenceFold(sents, i, st) ==
    IF i >= Len(sents) THEN st
    ELSE LET r == TokenFold(tokenize_sentence(sents[i + 1], MAX_WORDS_SENT), 0,
                            [vocab |-> st.vocab, vcount |-> st.vcount,
                             idx_list |-> << >>, count_list |-> << >>,
                             unique_indices |-> << >>])
         IN  SentenceFold(sents, i + 1,
                [vocab  |-> [ v \in 1..Len(r.vocab) |->
                                IF \E u \in 1..Len(r.unique_indices) :
                                      r.unique_indices[u] = v - 1
                                THEN [r.vocab[v] EXCEPT !.df = @ + 1]
                                ELSE r.vocab[v] ],
                 vcount |-> r.vcount,
                 sent_word_counts |->
                    Append(st.sent_word_counts,
                           [ z \in 1..Len(r.idx_list) |->
                               << r.idx_list[z], r.count_list[z] >> ])])

\* the greedy rounds from round k on: selected_idx as they leave it
RECURSIVE SelectFold(_, _, _, _, _)
SelectFold(k, K, selected_idx, sent_score, nsent) ==
    IF k >= K THEN selected_idx
    ELSE LET b == ScanBest(0, -1, NEG_HUGE, sent_score, selected_idx, nsent)
         IN  SelectFold(k + 1, K,
                        IF b >= 0 THEN [selected_idx EXCEPT ![b + 1] = 1]
                        ELSE selected_idx,
                        sent_score, nsent)

\* sentences, scores and out_order (0-based) for a file holding doc
SummaryOf(doc, depth) ==
    LET r     == IF Len(doc) < MAX_INPUT_SIZE - 1 THEN Len(doc) ELSE MAX_INPUT_SIZE - 1
        sents == split_sentences(SubSeq(doc, 1, r) \o << NUL >>, MAX_SENTENCES).sentences
        n     == Len(sents)
        st    == SentenceFold(sents, 0, [vocab |-> << >>, vcount |-> 0,
                                         sent_word_counts |-> << >>])
        idf   == [ v \in 1..st.vcount |-> IdfOf(st.vocab[v].df) ]
        score == [ j \in 1..n |-> SumPairs(st.sent_word_counts[j], 1, ZeroScore, idf) ]
        flags == SelectFold(0, ClampK(MappedK(depth), n),
                            [ j \in 1..MAX_SENTENCES |-> 0 ], score, n)
    IN  [sentences |-> sents, scores |-> score,
         selected |-> CollectOrder(0, n, flags, << >>)]

---------------------------------------------------------------------------
(* The state.                                                              *)

VARIABLES
    plan,             \* the calls still to be made, in order
    log,              \* one record per call that has returned
    pc,               \* where the current call stands ("idle": no call)
    file_path, depth, time_flag,      \* the arguments of the call
    malloc0,          \* what a 0-byte allocation returns in this build
    memory,           \* "ample", or "scarce": an allocation may be refused
    heap,             \* the blocks this call allocated and has not freed
    file_open,        \* the input stream is open
    t0,               \* clock() was read at the start of the call
    content, sentences, nsent,
    vocab, vcount, sent_word_counts,
    i, tokens, tw, t, idx_list, count_list, unique_indices,
    idf, sent_score,
    K, k, best, selected_idx, out_order, out_count,
    out,              \* what the call has printed
    ret,              \* the value the last call returned
    parked,           \* the locals of the thread that is not running, if any
    running           \* which thread the other variables are those of

args == << file_path, depth, time_flag >>
seg  == << content, sentences, nsent >>
voc  == << vocab, vcount, sent_word_counts >>
loop == << i, tokens, tw, t, idx_list, count_list, unique_indices >>
sco  == << idf, sent_score >>
sel  == << K, k, best, selected_idx, out_order, out_count >>
sched == << parked, running >>
vars == << plan, log, pc, args, malloc0, memory, sched, heap, file_open, t0,
           seg, voc, loop, sco, sel, out, ret >>

\* the locals of fish_summary before anything is stored in them
Fresh ==
    /\ content = << >> /\ sentences = << >> /\ nsent = 0
    /\ vocab = << >> /\ vcount = 0 /\ sent_word_counts = << >>
    /\ i = 0 /\ tokens = << >> /\ tw = 0 /\ t = 0
    /\ idx_list = << >> /\ count_list = << >> /\ unique_indices = << >>
    /\ idf = << >> /\ sent_score = << >>
    /\ K = 0 /\ k = 0 /\ best = -1 /\ selected_idx = << >>
    /\ out_order = << >> /\ out_count = 0
    /\ t0 = FALSE

\* one fossil_io_printf: which message, and the %s or %d it carries
Line(tag, text, num) == [tag |-> tag, text |-> text, num |-> num]
Msg(tag) == Line(tag, << >>, 0)

\* return r, having printed o and holding the blocks of live: the call ends
\* and is logged with how far it came ("entry": before the segmentation,
\* "split": after it, "rendered": after the summary was printed)
Return(r, o, live, stage) ==
    /\ pc' = "idle"
    /\ ret' = r
    /\ out' = o
    /\ heap' = live
    /\ log' = Append(log, [file      |-> file_path',
                           depth     |-> depth',
                           time_flag |-> time_flag',
                           ret       |-> r,
                           out       |-> o,
                           leaked    |-> live,
                           file_open |-> file_open',
                           stage     |-> stage,
                           sentences |-> IF stage = "entry" THEN << >>
                                         ELSE SubSeq(sentences', 1, nsent'),
                           selected  |-> IF stage = "rendered"
                                         THEN SubSeq(out_order', 1, out_count')
                                         ELSE << >>,
                           scores    |-> IF stage = "rendered"
                                         THEN SubSeq(sent_score', 1, nsent')
                                         ELSE << >>])

---------------------------------------------------------------------------
(* fish_summary, one action per stage or loop iteration.                   *)

\* whether an allocation of one byte or more whose result the code tests
\* (content, vocab, idf) may return NULL
Refusals == IF memory = "scarce" THEN BOOLEAN ELSE { FALSE }

\* a process starts: its stack and heap hold nothing of an earlier call
NewProcess ==
    /\ pc = "idle" /\ plan # << >> /\ Head(plan).fresh
    /\ plan' = [plan EXCEPT ![1].fresh = FALSE]
    /\ content' = << >> /\ sentences' = << >> /\ nsent' = 0
    /\ vocab' = << >> /\ vcount' = 0 /\ sent_word_counts' = << >>
    /\ i' = 0 /\ tokens' = << >> /\ tw' = 0 /\ t' = 0
    /\ idx_list' = << >> /\ count_list' = << >> /\ unique_indices' = << >>
    /\ idf' = << >> /\ sent_score' = << >>
    /\ K' = 0 /\ k' = 0 /\ best' = -1 /\ selected_idx' = << >>
    /\ out_order' = << >> /\ out_count' = 0
    /\ t0' = FALSE /\ heap' = { } /\ out' = << >>
    /\ UNCHANGED << log, pc, args, malloc0, memory, sched, file_open, ret >>

\* mutant: Call that goes on to read whatever fossil_io_file_open returned
Call_unchecked ==
    /\ pc = "idle" /\ plan # << >> /\ ~Head(plan).fresh
    /\ plan' = Tail(plan)
    /\ file_path' = [file |-> Head(plan).file, data |-> Head(plan).data]
    /\ depth' = Head(plan).depth
    /\ time_flag' = Head(plan).time_flag
    /\ UNCHANGED << malloc0, memory, sched, t0, seg, voc, loop, sco, sel >>
    /\ IF Head(plan).file = "null"
       THEN /\ file_open' = FALSE
            /\ Return(-1, << Msg("error_null_path") >>, { }, "entry")
       ELSE /\ file_open' = (Head(plan).file = "ok")
            /\ pc' = "read" /\ out' = << >> /\ heap' = { }
            /\ UNCHANGED << log, ret >>

\* entry, the null check and fossil_io_file_open
Call ==
    /\ pc = "idle" /\ plan # << >> /\ ~Head(plan).fresh
    /\ plan' = Tail(plan)
    /\ file_path' = [file |-> Head(plan).file, data |-> Head(plan).data]
    /\ depth' = Head(plan).depth
    /\ time_flag' = Head(plan).time_flag
    /\ UNCHANGED << malloc0, memory, sched, t0, seg, voc, loop, sco, sel >>
    /\ IF Head(plan).file = "null"
       THEN /\ file_open' = FALSE
            /\ Return(-1, << Msg("error_null_path") >>, { }, "entry")
       ELSE IF Head(plan).file = "missing"
       THEN /\ file_open' = FALSE
            /\ Return(-1, << Msg("error_cannot_open") >>, { }, "entry")
       ELSE /\ file_open' = TRUE
            /\ pc' = "read" /\ out' = << >> /\ heap' = { }
            /\ UNCHANGED << log, ret >>

\* the content buffer, fossil_io_file_read, the close and t0
Read ==
    /\ pc = "read"
    /\ UNCHANGED << plan, args, malloc0, memory, sched, voc, loop, sco, sel >>
    /\ file_open' = FALSE
    /\ \E refused \in Refusals :
          IF refused
          THEN /\ UNCHANGED << seg, t0 >>
               /\ Return(-1, Append(out, Msg("error_oom")), heap, "entry")
          ELSE /\ LET r == IF Len(file_path.data) < MAX_INPUT_SIZE - 1
                           THEN Len(file_path.data) ELSE MAX_INPUT_SIZE - 1
                  IN  content' = SubSeq(file_path.data, 1, r) \o << NUL >>
               /\ heap' = heap \cup { << "content", 0 >> }
               /\ t0' = (time_flag # 0)
               /\ pc' = "split"
               /\ UNCHANGED << sentences, nsent, log, out, ret >>

\* 1) split into sentences, and the return on nsent == 0
Split ==
    /\ pc = "split"
    /\ UNCHANGED << plan, args, malloc0, memory, sched, file_open, t0, voc, loop, sco, sel >>
    /\ LET r == split_sentences(content, MAX_SENTENCES)
           n == Len(r.sentences)
       IN  /\ content' = r.content
           /\ nsent' = n
           /\ sentences' = [ j \in 1..(IF n > Len(sentences) THEN n ELSE Len(sentences)) |->
                               IF j <= n THEN r.sentences[j] ELSE sentences[j] ]
           /\ IF n = 0
              THEN Return(0, Append(out, Msg("empty")),
                          heap \ { << "content", 0 >> }, "split")
              ELSE /\ heap' = heap \cup { << "sentence", j >> : j \in 1..n }
                   /\ pc' = "vocab"
                   /\ UNCHANGED << log, out, ret >>

\* mutant: AllocVocab that leaves the vocabulary count as it finds it
AllocVocab_keep ==
    /\ pc = "vocab"
    /\ UNCHANGED << plan, args, malloc0, memory, sched, file_open, t0, seg, sco, sel,
                    tokens, tw, t, idx_list, count_list, unique_indices >>
    /\ heap' = heap \cup { << "vocab", 0 >> }
    /\ vcount' = vcount
    /\ sent_word_counts' =
          [ j \in 1..(IF nsent > Len(sent_word_counts)
                      THEN nsent ELSE Len(sent_word_counts)) |->
              IF j <= nsent THEN << >> ELSE sent_word_counts[j] ]
    /\ i' = 0
    /\ pc' = "tokenize"
    /\ UNCHANGED << vocab, log, out, ret >>

\* 2) the vocabulary table, vcount = 0 and the clearing of the term lists
AllocVocab ==
    /\ pc = "vocab"
    /\ UNCHANGED << plan, args, malloc0, memory, sched, file_open, t0, seg, sco, sel,
                    tokens, tw, t, idx_list, count_list, unique_indices >>
    /\ \E refused \in Refusals :
          IF refused
          THEN /\ UNCHANGED << voc, i >>
               /\ Return(-1, Append(out, Msg("error_oom_vocab")),
                         heap \ { << "content", 0 >> }, "split")
          ELSE /\ heap' = heap \cup { << "vocab", 0 >> }
               /\ vcount' = 0
               /\ sent_word_counts' =
                     [ j \in 1..(IF nsent > Len(sent_word_counts)
                                 THEN nsent ELSE Len(sent_word_counts)) |->
                         IF j <= nsent THEN << >> ELSE sent_word_counts[j] ]
               /\ i' = 0
               /\ pc' = "tokenize"
               /\ UNCHANGED << vocab, log, out, ret >>

\* the head of the sentence loop: tokenize sentence i, empty its local lists
Tokenize ==
    /\ pc = "tokenize"
    /\ tokens' = tokenize_sentence(sentences[i + 1], MAX_WORDS_SENT)
    /\ tw' = Len(tokens')
    /\ unique_indices' = << >>
    /\ idx_list' = << >>
    /\ count_list' = << >>
    /\ t' = 0
    /\ pc' = IF tw' > 0 THEN "token" ELSE "sentence_end"
    /\ UNCHANGED << plan, log, args, malloc0, memory, sched, heap, file_open, t0,
                    seg, voc, i, sco, sel, out, ret >>

\* mutant: a token the full table refuses is skipped and the loop goes on
VocabToken_continue ==
    /\ pc = "token"
    /\ LET word  == tokens[t + 1]
           found == vocab_find(vocab, vcount, word)
           a     == vocab_add(vocab, vcount, word)
           vidx  == IF found < 0 THEN a.idx ELSE found
           voc1  == IF found < 0 THEN a.vocab ELSE vocab
           z     == IF \E y \in 1..Len(idx_list) : idx_list[y] = vidx
                    THEN CHOOSE y \in 1..Len(idx_list) : idx_list[y] = vidx
                    ELSE 0
       IN  IF word = << >> \/ vidx < 0
           THEN /\ UNCHANGED << vocab, vcount, idx_list, count_list, unique_indices, heap >>
                /\ t' = t + 1
                /\ pc' = IF t + 1 < tw THEN "token" ELSE "sentence_end"
           ELSE /\ vocab' = [voc1 EXCEPT ![vidx + 1].tf_total = @ + 1]
                /\ vcount' = IF found < 0 THEN a.vcount ELSE vcount
                /\ heap' = IF found < 0 THEN heap \cup { << "word", vidx + 1 >> } ELSE heap
                /\ IF z > 0
                   THEN /\ count_list' = [count_list EXCEPT ![z] = @ + 1]
                        /\ UNCHANGED << idx_list, unique_indices >>
                   ELSE /\ idx_list' = Append(idx_list, vidx)
                        /\ count_list' = Append(count_list, 1)
                        /\ unique_indices' = Append(unique_indices, vidx)
                /\ t' = t + 1
                /\ pc' = IF t + 1 < tw THEN "token" ELSE "sentence_end"
    /\ UNCHANGED << plan, log, args, malloc0, memory, sched, file_open, t0, seg,
                    sent_word_counts, i, tokens, tw, sco, sel, out, ret >>

\* one iteration of the token loop
VocabToken ==
    /\ pc = "token"
    /\ LET word  == tokens[t + 1]
           found == vocab_find(vocab, vcount, word)
           a     == vocab_add(vocab, vcount, word)
           vidx  == IF found < 0 THEN a.idx ELSE found
           voc1  == IF found < 0 THEN a.vocab ELSE vocab
           z     == IF \E y \in 1..Len(idx_list) : idx_list[y] = vidx
                    THEN CHOOSE y \in 1..Len(idx_list) : idx_list[y] = vidx
                    ELSE 0
       IN  IF word = << >>
           THEN \* continue
                /\ UNCHANGED << vocab, vcount, idx_list, count_list, unique_indices, heap >>
                /\ t' = t + 1
                /\ pc' = IF t + 1 < tw THEN "token" ELSE "sentence_end"
           ELSE IF vidx < 0
           THEN \* break
                /\ UNCHANGED << vocab, vcount, idx_list, count_list, unique_indices, heap, t >>
                /\ pc' = "sentence_end"
           ELSE /\ vocab' = [voc1 EXCEPT ![vidx + 1].tf_total = @ + 1]
                /\ vcount' = IF found < 0 THEN a.vcount ELSE vcount
                /\ heap' = IF found < 0 THEN heap \cup { << "word", vidx + 1 >> } ELSE heap
                /\ IF z > 0
                   THEN /\ count_list' = [count_list EXCEPT ![z] = @ + 1]
                        /\ UNCHANGED << idx_list, unique_indices >>
                   ELSE /\ idx_list' = Append(idx_list, vidx)
                        /\ count_list' = Append(count_list, 1)
                        /\ unique_indices' = Append(unique_indices, vidx)
                /\ t' = t + 1
                /\ pc' = IF t + 1 < tw THEN "token" ELSE "sentence_end"
    /\ UNCHANGED << plan, log, args, malloc0, memory, sched, file_open, t0, seg,
                    sent_word_counts, i, tokens, tw, sco, sel, out, ret >>

\* mutant: df grows by the occurrences of the term in the sentence
SentenceEnd_occurrences ==
    /\ pc = "sentence_end"
    /\ vocab' = [ v \in 1..Len(vocab) |->
                    IF \E z \in 1..Len(idx_list) : idx_list[z] = v - 1
                    THEN [vocab[v] EXCEPT !.df =
                            @ + count_list[CHOOSE z \in 1..Len(idx_list) :
                                              idx_list[z] = v - 1]]
                    ELSE vocab[v] ]
    /\ sent_word_counts' =
          [sent_word_counts EXCEPT ![i + 1] =
              [ z \in 1..Len(idx_list) |-> << idx_list[z], count_list[z] >> ]]
    /\ heap' = IF Len(idx_list) > 0 THEN heap \cup { << "counts", i + 1 >> } ELSE heap
    /\ i' = i + 1
    /\ pc' = IF i + 1 < nsent THEN "tokenize" ELSE "idf"
    /\ UNCHANGED << plan, log, args, malloc0, memory, sched, file_open, t0, seg, vcount,
                    tokens, tw, t, idx_list, count_list, unique_indices,
                    sco, sel, out, ret >>

\* mutant: the idf weights are refreshed at the end of every sentence
SentenceEnd_streaming ==
    /\ pc = "sentence_end"
    /\ vocab' = [ v \in 1..Len(vocab) |->
                    IF \E u \in 1..Len(unique_indices) : unique_indices[u] = v - 1
                    THEN [vocab[v] EXCEPT !.df =
                            @ + Cardinality({ u \in 1..Len(unique_indices) :
                                               unique_indices[u] = v - 1 })]
                    ELSE vocab[v] ]
    /\ idf' = [ v \in 1..(IF vcount > Len(idf) THEN vcount ELSE Len(idf)) |->
                  IF v <= vcount THEN IdfOf(vocab'[v].df) ELSE idf[v] ]
    /\ sent_word_counts' =
          [sent_word_counts EXCEPT ![i + 1] =
              [ z \in 1..Len(idx_list) |-> << idx_list[z], count_list[z] >> ]]
    /\ heap' = IF Len(idx_list) > 0 THEN heap \cup { << "counts", i + 1 >> } ELSE heap
    /\ i' = i + 1
    /\ pc' = IF i + 1 < nsent THEN "tokenize" ELSE "idf"
    /\ UNCHANGED << plan, log, args, malloc0, memory, sched, file_open, t0, seg, vcount,
                    tokens, tw, t, idx_list, count_list, unique_indices,
                    sent_score, sel, out, ret >>

\* after the token loop: the df increments and the sentence's term list
SentenceEnd ==
    /\ pc = "sentence_end"
    /\ vocab' = [ v \in 1..Len(vocab) |->
                    IF \E u \in 1..Len(unique_indices) : unique_indices[u] = v - 1
                    THEN [vocab[v] EXCEPT !.df =
                            @ + Cardinality({ u \in 1..Len(unique_indices) :
                                               unique_indices[u] = v - 1 })]
                    ELSE vocab[v] ]
    /\ sent_word_counts' =
          [sent_word_counts EXCEPT ![i + 1] =
              [ z \in 1..Len(idx_list) |-> << idx_list[z], count_list[z] >> ]]
    /\ heap' = IF Len(idx_list) > 0 THEN heap \cup { << "counts", i + 1 >> } ELSE heap
    /\ i' = i + 1
    /\ pc' = IF i + 1 < nsent THEN "tokenize" ELSE "idf"
    /\ UNCHANGED << plan, log, args, malloc0, memory, sched, file_open, t0, seg, vcount,
                    tokens, tw, t, idx_list, count_list, unique_indices,
                    sco, sel, out, ret >>

\* everything the call owns besides the idf table
Owned ==
    { << "content", 0 >>, << "vocab", 0 >> }
      \cup { << "sentence", j >> : j \in 1..nsent }
      \cup { << "counts", j >> : j \in { y \in 1..nsent : sent_word_counts[y] # << >> } }
      \cup { << "word", v >> : v \in 1..vcount }

\* 3) the idf table: its allocation, the error return, and the idf loop
AllocIdf ==
    /\ pc = "idf"
    /\ UNCHANGED << plan, args, memory, sched, file_open, t0, seg, voc, loop, sent_score, sel >>
    /\ \E refused \in (IF vcount = 0 THEN BOOLEAN ELSE Refusals) :
          /\ IF vcount = 0
             THEN \* sizeof(double) * 0 bytes: NULL or a pointer, as the build has it
                  /\ malloc0 \in { "unknown", IF refused THEN "null" ELSE "pointer" }
                  /\ malloc0' = IF refused THEN "null" ELSE "pointer"
             ELSE UNCHANGED malloc0
          /\ IF refused
             THEN /\ UNCHANGED idf
                  /\ Return(-1, Append(out, Msg("error_oom_idf")), heap \ Owned, "split")
             ELSE /\ heap' = heap \cup { << "idf", 0 >> }
                  /\ idf' = [ v \in 1..(IF vcount > Len(idf) THEN vcount ELSE Len(idf)) |->
                                IF v <= vcount THEN IdfOf(vocab[v].df) ELSE idf[v] ]
                  /\ pc' = "score"
                  /\ UNCHANGED << log, out, ret >>

\* the sentence scores
Score ==
    /\ pc = "score"
    /\ sent_score' =
          [ j \in 1..(IF nsent > Len(sent_score) THEN nsent ELSE Len(sent_score)) |->
              IF j <= nsent THEN SumPairs(sent_word_counts[j], 1, ZeroScore, idf)
              ELSE sent_score[j] ]
    /\ pc' = "choose"
    /\ UNCHANGED << plan, log, args, malloc0, memory, sched, heap, file_open, t0, seg, voc,
                    loop, idf, sel, out, ret >>

\* mutant: ChooseK whose selection flags are zeroed once per process only
ChooseK_static ==
    /\ pc = "choose"
    /\ K' = ClampK(MappedK(depth), nsent)
    /\ selected_idx' = IF selected_idx = << >>
                       THEN [ j \in 1..MAX_SENTENCES |-> 0 ]
                       ELSE selected_idx
    /\ k' = 0
    /\ pc' = IF K' > 0 THEN "select" ELSE "collect"
    /\ UNCHANGED << plan, log, args, malloc0, memory, sched, heap, file_open, t0, seg, voc,
                    loop, sco, best, out_order, out_count, out, ret >>

\* K from depth, the clamp, and selected_idx = {0}
ChooseK ==
    /\ pc = "choose"
    /\ K' = ClampK(MappedK(depth), nsent)
    /\ selected_idx' = [ j \in 1..MAX_SENTENCES |-> 0 ]
    /\ k' = 0
    /\ pc' = IF K' > 0 THEN "select" ELSE "collect"
    /\ UNCHANGED << plan, log, args, malloc0, memory, sched, heap, file_open, t0, seg, voc,
                    loop, sco, best, out_order, out_count, out, ret >>

\* mutant: a call for one sentence takes the last of the best sentences
SelectRound_single ==
    /\ pc = "select"
    /\ best' = IF K = 1
               THEN ScanBest_last(0, -1, NEG_HUGE, sent_score, selected_idx, nsent)
               ELSE ScanBest(0, -1, NEG_HUGE, sent_score, selected_idx, nsent)
    /\ selected_idx' = IF best' >= 0 THEN [selected_idx EXCEPT ![best' + 1] = 1]
                       ELSE selected_idx
    /\ k' = k + 1
    /\ pc' = IF k + 1 < K THEN "select" ELSE "collect"
    /\ UNCHANGED << plan, log, args, malloc0, memory, sched, heap, file_open, t0, seg, voc,
                    loop, sco, K, out_order, out_count, out, ret >>

\* one greedy round
SelectRound ==
    /\ pc = "select"
    /\ best' = ScanBest(0, -1, NEG_HUGE, sent_score, selected_idx, nsent)
    /\ selected_idx' = IF best' >= 0 THEN [selected_idx EXCEPT ![best' + 1] = 1]
                       ELSE selected_idx
    /\ k' = k + 1
    /\ pc' = IF k + 1 < K THEN "select" ELSE "collect"
    /\ UNCHANGED << plan, log, args, malloc0, memory, sched, heap, file_open, t0, seg, voc,
                    loop, sco, K, out_order, out_count, out, ret >>

\* out_order and out_count
Collect ==
    /\ pc = "collect"
    /\ LET order == CollectOrder(0, nsent, selected_idx, << >>)
       IN  /\ out_count' = Len(order)
           /\ out_order' = [ j \in 1..(IF Len(order) > Len(out_order)
                                       THEN Len(order) ELSE Len(out_order)) |->
                               IF j <= Len(order) THEN order[j] ELSE out_order[j] ]
    /\ pc' = "render"
    /\ UNCHANGED << plan, log, args, malloc0, memory, sched, heap, file_open, t0, seg, voc,
                    loop, sco, K, k, best, selected_idx, out, ret >>

\* mutant: the sentences are printed as strtolower_inplace would leave them
Render_lower ==
    /\ pc = "render"
    /\ out' = out \o << Line("header", << >>, depth) >>
                  \o [ j \in 1..out_count |->
                         Line("sentence",
                              [ x \in 1..Len(sentences[out_order[j] + 1]) |->
                                  tolower(sentences[out_order[j] + 1][x]) ] \o << "\n", "\n" >>,
                              0) ]
                  \o (IF time_flag # 0 THEN << Msg("timing") >> ELSE << >>)
    /\ pc' = "cleanup"
    /\ UNCHANGED << plan, log, args, malloc0, memory, sched, heap, file_open, t0, seg, voc,
                    loop, sco, sel, ret >>

\* the header, the selected sentences and the timing line
Render ==
    /\ pc = "render"
    /\ out' = out \o << Line("header", << >>, depth) >>
                  \o [ j \in 1..out_count |->
                         Line("sentence", sentences[out_order[j] + 1] \o << "\n", "\n" >>, 0) ]
                  \o (IF time_flag # 0 THEN << Msg("timing") >> ELSE << >>)
    /\ pc' = "cleanup"
    /\ UNCHANGED << plan, log, args, malloc0, memory, sched, heap, file_open, t0, seg, voc,
                    loop, sco, sel, ret >>

\* the frees and return 0
Cleanup ==
    /\ pc = "cleanup"
    /\ UNCHANGED << plan, args, malloc0, memory, sched, file_open, t0, seg, voc, loop, sco, sel >>
    /\ Return(0, out, heap \ (Owned \cup { << "idf", 0 >> }), "rendered")

\* the parameters and locals of the running invocation: its stack frame,
\* the blocks and the stream it holds, what it printed and returned
Locals ==
    [ start |-> 0, plan |-> plan, pc |-> pc, file_path |-> file_path,
      depth |-> depth, time_flag |-> time_flag, heap |-> heap,
      file_open |-> file_open, t0 |-> t0, content |-> content,
      sentences |-> sentences, nsent |-> nsent, vocab |-> vocab,
      vcount |-> vcount, sent_word_counts |-> sent_word_counts, i |-> i,
      tokens |-> tokens, tw |-> tw, t |-> t, idx_list |-> idx_list,
      count_list |-> count_list, unique_indices |-> unique_indices,
      idf |-> idf, sent_score |-> sent_score, K |-> K, k |-> k,
      best |-> best, selected_idx |-> selected_idx,
      out_order |-> out_order, out_count |-> out_count, out |-> out,
      ret |-> ret ]

\* mutant: a switch between invocations whose K is one static variable
Switch_static ==
    /\ parked # << >> /\ Len(log) >= parked[1].start
    /\ parked' = << Locals >>
    /\ running' = 3 - running
    /\ plan' = parked[1].plan
    /\ pc' = parked[1].pc
    /\ file_path' = parked[1].file_path
    /\ depth' = parked[1].depth
    /\ time_flag' = parked[1].time_flag
    /\ heap' = parked[1].heap
    /\ file_open' = parked[1].file_open
    /\ t0' = parked[1].t0
    /\ content' = parked[1].content
    /\ sentences' = parked[1].sentences
    /\ nsent' = parked[1].nsent
    /\ vocab' = parked[1].vocab
    /\ vcount' = parked[1].vcount
    /\ sent_word_counts' = parked[1].sent_word_counts
    /\ i' = parked[1].i
    /\ tokens' = parked[1].tokens
    /\ tw' = parked[1].tw
    /\ t' = parked[1].t
    /\ idx_list' = parked[1].idx_list
    /\ count_list' = parked[1].count_list
    /\ unique_indices' = parked[1].unique_indices
    /\ idf' = parked[1].idf
    /\ sent_score' = parked[1].sent_score
    /\ K' = K
    /\ k' = parked[1].k
    /\ best' = parked[1].best
    /\ selected_idx' = parked[1].selected_idx
    /\ out_order' = parked[1].out_order
    /\ out_count' = parked[1].out_count
    /\ out' = parked[1].out
    /\ ret' = parked[1].ret
    /\ UNCHANGED << log, malloc0, memory >>

\* the scheduler takes the running invocation off the processor and puts
\* the other thread's on: every parameter and local is the thread's own
Switch ==
    /\ parked # << >> /\ Len(log) >= parked[1].start
    /\ parked' = << Locals >>
    /\ running' = 3 - running
    /\ plan' = parked[1].plan
    /\ pc' = parked[1].pc
    /\ file_path' = parked[1].file_path
    /\ depth' = parked[1].depth
    /\ time_flag' = parked[1].time_flag
    /\ heap' = parked[1].heap
    /\ file_open' = parked[1].file_open
    /\ t0' = parked[1].t0
    /\ content' = parked[1].content
    /\ sentences' = parked[1].sentences
    /\ nsent' = parked[1].nsent
    /\ vocab' = parked[1].vocab
    /\ vcount' = parked[1].vcount
    /\ sent_word_counts' = parked[1].sent_word_counts
    /\ i' = parked[1].i
    /\ tokens' = parked[1].tokens
    /\ tw' = parked[1].tw
    /\ t' = parked[1].t
    /\ idx_list' = parked[1].idx_list
    /\ count_list' = parked[1].count_list
    /\ unique_indices' = parked[1].unique_indices
    /\ idf' = parked[1].idf
    /\ sent_score' = parked[1].sent_score
    /\ K' = parked[1].K
    /\ k' = parked[1].k
    /\ best' = parked[1].best
    /\ selected_idx' = parked[1].selected_idx
    /\ out_order' = parked[1].out_order
    /\ out_count' = parked[1].out_count
    /\ out' = parked[1].out
    /\ ret' = parked[1].ret
    /\ UNCHANGED << log, malloc0, memory >>

Next ==
    \/ NewProcess \/ Call \/ Read \/ Split \/ AllocVocab
    \/ Tokenize \/ VocabToken \/ SentenceEnd
    \/ AllocIdf \/ Score \/ ChooseK \/ SelectRound \/ Collect \/ Render \/ Cleanup

\* two threads of one process
NextConcurrent == Next \/ Switch

---------------------------------------------------------------------------
(* The documents and calls the specifications draw from.                   *)

\* the scenario document of the specification, section 8
CatDoc ==
    << "T", "h", "e", " ", "c", "a", "t", " ", "s", "a", "t", ".", " ", "T",
       "h", "e", " ", "c", "a", "t", " ", "r", "a", "n", ".", " ", "D", "o",
       "g", "s", " ", "b", "a", "r", "k", " ", "l", "o", "u", "d", "l", "y",
       ".", " ", "B", "i", "r", "d", "s", " ", "f", "l", "y", " ", "h", "i",
       "g", "h", "." >>

\* ten sentences of one to three terms, every kind of separator
TenDoc ==
    << "a", " ", "b", ".", " ", "c", " ", "a", "!", " ", "d", "?", " ", "e",
       ".", "\n", "A", " ", "c", ",", " ", "B", ".", " ", "7", " ", "a", ";",
       " ", "c", ".", " ", "b", " ", "7", ".", " ", "e", " ", "d", ".", " ",
       "A", ".", "\t", "b", " ", "e", ".", " " >>

\* one unfinished sentence of MAX_WORDS_SENT words
WordsDoc ==
    << "a", " ", "b", " ", "c", " ", "d", " " >>

\* two words longer than MAX_WORD_LEN - 1 that agree on their first
\* MAX_WORD_LEN - 1 characters, case apart
LongWordDoc ==
    << "a", "b", "c", "d", "e", "f", "g", "h", ".", " ", "A", "b", "c", "d",
       "e", "f", "x", "y", " " >>

\* seven sentences of two terms: the first five fill the vocabulary, the
\* sixth repeats two of their terms, the seventh brings two new ones
VocabDoc ==
    << "a", " ", "b", ".", " ", "c", " ", "d", ".", " ", "e", " ", "f", ".",
       " ", "g", " ", "h", ".", " ", "i", " ", "j", ".", " ", "a", " ", "c",
       ".", " ", "k", " ", "l", "." >>

\* MAX_SENTENCES + 1 sentences, none of which holds a term
DotsDoc == [ x \in 1..(MAX_SENTENCES + 1) |-> "." ]

\* three sentences in which terms repeat
RepeatDoc ==
    << "a", " ", "a", " ", "b", ".", " ", "b", " ", "a", ".", " ", "c", " ",
       "c", " ", "c", "." >>

BaseDocs ==
    { << >>, CatDoc, TenDoc, WordsDoc, LongWordDoc, VocabDoc, DotsDoc, RepeatDoc }

TailChars == { "a", "B", ".", " ", "\n" }

\* every string over TailChars of length at most n
RECURSIVE Tails(_)
Tails(n) ==
    IF n = 0 THEN { << >> }
    ELSE LET shorter == Tails(n - 1)
         IN  shorter \cup { Append(s, c) : s \in { u \in shorter : Len(u) = n - 1 },
                                            c \in TailChars }

Docs == { b \o s : b \in BaseDocs, s \in Tails(MaxTail) }

Depths == (0 - NegDepth)..MaxDepth

TimeFlags == { 0, 1 }

\* one call of fish_summary in a new process
CallOf(file, data, d, tf) ==
    [file |-> file, data |-> data, depth |-> d, time_flag |-> tf, fresh |-> TRUE]

\* a readable file holding doc, no path at all, or a path that does not open
Plans ==
    { << CallOf("ok", doc, d, tf) >> : doc \in Docs, d \in Depths, tf \in TimeFlags }
      \cup { << CallOf(f, << >>, d, tf) >> :
               f \in { "null", "missing" }, d \in Depths, tf \in TimeFlags }

InitWith(plans, mem) ==
    /\ plan \in plans
    /\ memory = mem
    /\ parked = << >>
    /\ running = 1
    /\ log = << >>
    /\ pc = "idle"
    /\ file_path = [file |-> "null", data |-> << >>]
    /\ depth = 0
    /\ time_flag = 0
    /\ malloc0 = "unknown"
    /\ heap = { }
    /\ file_open = FALSE
    /\ Fresh
    /\ out = << >>
    /\ ret = 0

Init == InitWith(Plans, "ample")

Spec == Init /\ [][Next]_vars

\* several calls in one process: the same document twice, at any two depths,
\* and a document B alone in a process of its own (first record), then a
\* document A and B again in one process (second and third record)
SessionDocs == { b \o s : b \in BaseDocs, s \in Tails(SessionTail) }

Again(c) == [c EXCEPT !.fresh = FALSE]

PlansRepeat ==
    { << CallOf("ok", doc, d1, 0), Again(CallOf("ok", doc, d2, 0)) >> :
         doc \in SessionDocs, d1 \in Depths, d2 \in Depths }

PlansAfter ==
    { << CallOf("ok", B, d, 0), CallOf("ok", A, MaxDepth, 0),
         Again(CallOf("ok", B, d, 0)) >> :
         A \in { TenDoc, VocabDoc }, B \in SessionDocs, d \in Depths }

InitSession == InitWith(PlansRepeat \cup PlansAfter, "ample")

SpecSession == InitSession /\ [][Next]_vars

\* a thread summarizes A, then B, then A again; once the first two calls
\* have returned a second thread summarizes B at any pace against the third
ConcurrentDocs == { CatDoc, TenDoc, VocabDoc }
ConcurrentDepths == { 1, 3 }

InitConcurrent ==
    /\ \E A \in ConcurrentDocs, B \in ConcurrentDocs, d \in ConcurrentDepths :
          /\ A # B
          /\ plan = << CallOf("ok", A, d, 0), CallOf("ok", B, d, 0),
                       CallOf("ok", A, d, 0) >>
          /\ parked = << [ start |-> 2, plan |-> << CallOf("ok", B, d, 0) >>,
                           pc |-> "idle",
                           file_path |-> [file |-> "null", data |-> << >>],
                           depth |-> 0, time_flag |-> 0, heap |-> { },
                           file_open |-> FALSE, t0 |-> FALSE, content |-> << >>,
                           sentences |-> << >>, nsent |-> 0, vocab |-> << >>,
                           vcount |-> 0, sent_word_counts |-> << >>, i |-> 0,
                           tokens |-> << >>, tw |-> 0, t |-> 0,
                           idx_list |-> << >>, count_list |-> << >>,
                           unique_indices |-> << >>, idf |-> << >>,
                           sent_score |-> << >>, K |-> 0, k |-> 0, best |-> -1,
                           selected_idx |-> << >>, out_order |-> << >>,
                           out_count |-> 0, out |-> << >>, ret |-> 0 ] >>
    /\ running = 1
    /\ memory = "ample"
    /\ log = << >>
    /\ pc = "idle"
    /\ file_path = [file |-> "null", data |-> << >>]
    /\ depth = 0
    /\ time_flag = 0
    /\ malloc0 = "unknown"
    /\ heap = { }
    /\ file_open = FALSE
    /\ Fresh
    /\ out = << >>
    /\ ret = 0

SpecConcurrent == InitConcurrent /\ [][NextConcurrent]_vars

\* one call in a process that may be refused memory
PlansScarce ==
    { << CallOf("ok", doc, d, tf) >> :
         doc \in SessionDocs, d \in Depths, tf \in TimeFlags }
      \cup { << CallOf(f, << >>, d, tf) >> :
               f \in { "null", "missing" }, d \in Depths, tf \in TimeFlags }

InitScarce == InitWith(PlansScarce, "scarce")

SpecScarce == InitScarce /\ [][Next]_vars

\* eight sentences: the first five fill the vocabulary; the sixth has a
\* known term, a new one and a known one; the seventh a known term and a
\* new one; the eighth a new one
FullDoc ==
    << "a", " ", "b", ".", " ", "c", " ", "d", ".", " ", "e", " ", "f", ".",
       " ", "g", " ", "h", ".", " ", "i", " ", "j", ".", " ", "a", " ", "k",
       " ", "b", ".", " ", "c", " ", "l", ".", " ", "k", "." >>

\* one call on a document that has more terms than the vocabulary holds
PlansFull ==
    { << CallOf("ok", doc \o s, d, tf) >> :
         doc \in { VocabDoc, FullDoc }, s \in Tails(MaxTail),
         d \in Depths, tf \in TimeFlags }

InitFull == InitWith(PlansFull, "ample")

SpecFull == InitFull /\ [][Next]_vars

---------------------------------------------------------------------------
(* Vocabulary of the properties.                                           *)

Min(a, b) == IF a < b THEN a ELSE b

\* the summary sentences among printed lines
SummaryLines(o) == SelectSeq(o, LAMBDA l : l.tag = "sentence")

\* the blank-line separator after each printed sentence
Separator == << "\n", "\n" >>

\* a call has returned; LastCall is its record
Returned == pc = "idle" /\ log # << >>
LastCall == log[Len(log)]

\* the 1-based positions of the selected and of the other sentences
Selected == { j \in 1..nsent : selected_idx[j] # 0 }
Unselected == { j \in 1..nsent : selected_idx[j] = 0 }

ScoreEq(a, b, N) == ~ScoreGt(a, b, N) /\ ~ScoreGt(b, a, N)

\* the selection is over and its tables are still those of the call
SelectionDone == pc \in { "collect", "render", "cleanup" }

\* depth -> sentences asked for, as the specification states it
SpecifiedK(d) == CASE d <= 1 -> 1 [] d = 2 -> 3 [] d = 3 -> 5 [] OTHER -> 10

---------------------------------------------------------------------------
(* C1: for every document that segments into N >= 1 sentences and every    *)
(* depth, fish_summary emits exactly min(K(depth), N) distinct sentences,  *)
(* one sentence for a one-sentence document at any depth.  The code does   *)
(* not: a document whose sentences hold no alphanumeric character asks for *)
(* a 0-byte idf table, and where that allocation returns NULL the call     *)
(* prints an error and no sentence.                                        *)
C1_BoundRespect ==
    Returned /\ LastCall.stage # "entry" /\ nsent >= 1
       => /\ Len(SummaryLines(out)) = Min(SpecifiedK(depth), nsent)
          /\ LastCall.stage = "rendered"
          /\ out_count = Min(SpecifiedK(depth), nsent)
          /\ \A a, b \in 1..out_count : a # b => out_order[a] # out_order[b]

\* what does hold: the bound is respected by every call that reaches the
\* selection, and only a refused 0-byte idf table keeps a call from it
C1_BoundRespectIfIdfTable ==
    Returned /\ LastCall.stage # "entry" /\ nsent >= 1
       => \/ /\ LastCall.stage = "rendered"
             /\ Len(SummaryLines(out)) = Min(SpecifiedK(depth), nsent)
             /\ out_count = Min(SpecifiedK(depth), nsent)
             /\ \A a, b \in 1..out_count : a # b => out_order[a] # out_order[b]
          \/ /\ vcount = 0 /\ malloc0 = "null" /\ ret = -1
             /\ SummaryLines(out) = << >>

(* C2: the sentences of the printed summary are in strictly increasing     *)
(* sentence index, whatever order the greedy rounds picked them in.        *)
C2_OrderPreserved ==
    pc = "cleanup"
       => LET lines == SummaryLines(out)
          IN  /\ Len(lines) = out_count
              /\ \A j \in 1..out_count :
                    lines[j].text = sentences[out_order[j] + 1] \o Separator
              /\ \A j \in 1..(out_count - 1) : out_order[j] < out_order[j + 1]

\* a summary of several sentences whose last pick is not its last sentence
C2_Witness ==
    /\ pc = "cleanup" /\ out_count >= 3
    /\ best < out_order[out_count]
    /\ best > out_order[1]

(* C3: the selected set is the K highest-scoring sentences: K sentences    *)
(* are selected and no unselected sentence scores strictly higher than a   *)
(* selected one.                                                           *)
C3_TopK ==
    SelectionDone
       => /\ Cardinality(Selected) = K
          /\ \A s \in Selected, u \in Unselected :
                ~ScoreGt(sent_score[u], sent_score[s], nsent)

\* a later sentence was selected over an earlier one of lower score
C3_Witness ==
    /\ SelectionDone
    /\ \E s \in Selected, u \in Unselected :
          s > u /\ ScoreGt(sent_score[s], sent_score[u], nsent)

(* C4: ties go to the earlier sentence: a selected and an unselected       *)
(* sentence of equal score are in index order, and the sentence a greedy   *)
(* round picks is the lowest-index one among the not yet selected          *)
(* sentences of maximal score.                                             *)
C4_TieBreak ==
    /\ SelectionDone
          => \A s \in Selected, u \in Unselected :
                ScoreEq(sent_score[s], sent_score[u], nsent) => s < u
    /\ pc \in { "select", "collect" } /\ k >= 1
          => /\ best + 1 \in Selected
             /\ \A u \in Unselected :
                   /\ ~ScoreGt(sent_score[u], sent_score[best + 1], nsent)
                   /\ ScoreEq(sent_score[u], sent_score[best + 1], nsent) => best + 1 < u

\* a round has just picked one of several sentences of the same, maximal score
C4_Witness ==
    /\ pc = "select" /\ k >= 1
    /\ \E u \in Unselected :
          ScoreEq(sent_score[u], sent_score[best + 1], nsent)

(* C5: the pipeline is deterministic: two runs on the same document and    *)
(* depth give the same sentence sequence from the segmentation and the     *)
(* same summary output, the same sentences in the same order.              *)
SameInput(a, b) == a.file = b.file /\ a.depth = b.depth

C5_Deterministic ==
    \A a, b \in DOMAIN log :
       SameInput(log[a], log[b])
          => /\ log[a].sentences = log[b].sentences
             /\ log[a].out = log[b].out
             /\ log[a].ret = log[b].ret

\* the same document has been summarized twice in a row at one depth in one
\* process, to three sentences or more out of a longer document
C5_Witness ==
    /\ pc = "idle" /\ Len(log) = 2 /\ SameInput(log[1], log[2])
    /\ Len(log[2].selected) >= 3
    /\ Len(log[2].sentences) > Len(log[2].selected)
    /\ Len(SummaryLines(log[2].out)) = Len(log[2].selected)

(* C6: summarizing an empty or whitespace-only document, at any depth,      *)
(* segments zero sentences, prints no summary sentence, returns 0 and      *)
(* builds no vocabulary.                                                   *)
IsBlank(doc) == \A x \in 1..Len(doc) : isspace(doc[x])

C6_EmptyInput ==
    file_path.file = "ok" /\ IsBlank(file_path.data)
       => /\ pc \in { "idle", "read", "split" }
          /\ << "vocab", 0 >> \notin heap
          /\ vocab = << >> /\ vcount = 0
          /\ SummaryLines(out) = << >>
          /\ pc = "idle"
                => /\ ret = 0
                   /\ nsent = 0
                   /\ LastCall.sentences = << >>
                   /\ out = << Msg("empty") >>

\* a document of two whitespace characters was summarized at depth 5
C6_Witness ==
    /\ Returned /\ file_path.file = "ok" /\ depth = 5
    /\ Len(file_path.data) = 2 /\ IsBlank(file_path.data)
    /\ file_path.data[2] = "\n"

(* C7: before the clamp K is 1 for depth 1, 3 for depth 2, 5 for depth 3   *)
(* and 10 for every depth >= 4; the mapping is non-decreasing over all     *)
(* depths, a depth below 1 counting as depth 1; so for a fixed document    *)
(* the number of selected sentences never decreases when depth increases.  *)
Chosen == pc \in { "select", "collect", "render", "cleanup" }

C7_DepthMapping ==
    /\ \A d \in Depths :
          /\ d = 1 => MappedK(d) = 1
          /\ d = 2 => MappedK(d) = 3
          /\ d = 3 => MappedK(d) = 5
          /\ d >= 4 => MappedK(d) = 10
          /\ d < 1 => MappedK(d) = MappedK(1)
    /\ \A d1, d2 \in Depths : d1 <= d2 => MappedK(d1) <= MappedK(d2)
    /\ Chosen => K = Min(MappedK(depth), nsent)
    /\ \A a, b \in DOMAIN log :
          log[a].file = log[b].file /\ log[a].depth <= log[b].depth
             => /\ Len(log[a].selected) <= Len(log[b].selected)
                /\ Len(SummaryLines(log[a].out)) <= Len(SummaryLines(log[b].out))

\* one document has been summarized at a depth >= 4 and then at a lower
\* depth, to ten sentences and then to fewer
C7_Witness ==
    /\ pc = "idle" /\ Len(log) = 2 /\ log[1].file = log[2].file
    /\ log[1].depth > 4 /\ log[2].depth \in 1..3
    /\ Len(log[1].selected) = 10
    /\ Len(log[2].selected) = MappedK(log[2].depth)

(* C8: in a document whose sentences all have the same number of tokens,   *)
(* a sentence none of whose terms occurs in another sentence scores        *)
(* strictly higher than any sentence that shares a term with another, so   *)
(* depth=1 selects such a sentence; for CatDoc at depth 1 the summary is   *)
(* the one sentence "Dogs bark loudly." or "Birds fly high.".              *)
TermsOf(j) == Range(tokenize_sentence(sentences[j], MAX_WORDS_SENT))
TokenCount(j) == Len(tokenize_sentence(sentences[j], MAX_WORDS_SENT))
SameTokenCount == \A j \in 1..nsent : TokenCount(j) = TokenCount(1)
SharesTerm(j) == \E y \in (1..nsent) \ { j } : TermsOf(j) \cap TermsOf(y) # { }
DocumentTerms == UNION { TermsOf(j) : j \in 1..nsent }

DogsBark == SubSeq(CatDoc, 27, 43)
BirdsFly == SubSeq(CatDoc, 45, 59)

\* the scores are computed and the tables are still those of the call
Scored == pc \in { "choose", "select", "collect", "render", "cleanup" }

\* the claim for the documents for which within holds; the scores are
\* looked at when all are computed (pc = "choose") and the selection when
\* it is complete (pc = "collect"): neither is written afterwards
UniqueTermsWinWhen(within) ==
    LET toks   == [ j \in 1..nsent |-> tokenize_sentence(sentences[j], MAX_WORDS_SENT) ]
        terms  == [ j \in 1..nsent |-> Range(toks[j]) ]
        same   == \A j \in 1..nsent : Len(toks[j]) = Len(toks[1])
        shares == [ j \in 1..nsent |->
                      \E y \in (1..nsent) \ { j } : terms[j] \cap terms[y] # { } ]
    IN  /\ pc = "choose"
              => (same /\ within
                    => \A u, s \in 1..nsent :
                          ~shares[u] /\ shares[s]
                             => ScoreGt(sent_score[u], sent_score[s], nsent))
        /\ pc = "collect" /\ depth <= 1
              => (same /\ within /\ (\E u \in 1..nsent : ~shares[u])
                    => \A s \in Selected : ~shares[s])
        /\ Returned /\ file_path.file = "ok" /\ file_path.data = CatDoc /\ depth = 1
              => /\ Len(SummaryLines(out)) = 1
                 /\ SummaryLines(out)[1].text \in { DogsBark \o Separator,
                                                    BirdsFly \o Separator }

UniqueTermsWin == UniqueTermsWinWhen(TRUE)

\* the same for every document of the model, those of more distinct terms
\* than the scaled vocabulary holds included: VocabDoc does not satisfy it
C8_UniqueTermsWin_AnyDocument == UniqueTermsWin

\* the claim, for the documents whose terms the vocabulary can hold.  With
\* the source's values every file is one: the MAX_INPUT_SIZE - 1 = 262143
\* bytes that are read hold at most 62300 distinct terms (36 of one
\* character, 1296 of two, 46656 of three, the rest of four, each with a
\* separator), and MAX_VOCAB is 65536
C8_UniqueTermsWin ==
    UniqueTermsWinWhen(Cardinality(DocumentTerms) <= MAX_VOCAB)

\* depth 1 has selected a sentence of terms of its own in a document of
\* equally long sentences, some of which share terms, other than CatDoc
C8_Witness ==
    /\ pc = "collect" /\ depth = 1 /\ SameTokenCount /\ TokenCount(1) >= 2
    /\ Cardinality(DocumentTerms) <= MAX_VOCAB
    /\ file_path.data # CatDoc
    /\ \E u \in Selected : ~SharesTerm(u)
    /\ \E s \in 1..nsent : SharesTerm(s)

(* C9: the summary is extractive: every printed sentence is, character for *)
(* character, one of the sentences the segmenter produced from the         *)
(* document (a span of the document without leading or trailing            *)
(* whitespace), each selected sentence is printed exactly once, and each   *)
(* is followed by the blank-line separator.                                *)
IsSpanOf(sent, doc) ==
    /\ sent # << >>
    /\ ~isspace(sent[1]) /\ ~isspace(sent[Len(sent)])
    /\ \E a \in 1..Len(doc) :
          a + Len(sent) - 1 <= Len(doc) /\ SubSeq(doc, a, a + Len(sent) - 1) = sent

C9_Extractive ==
    pc = "cleanup"
       => LET lines == SummaryLines(out)
              segmented == split_sentences(file_path.data \o << NUL >>,
                                           MAX_SENTENCES).sentences
          IN  /\ Len(lines) = Cardinality(Selected)
              /\ \A s \in Selected : \E j \in 1..Len(lines) : out_order[j] + 1 = s
              /\ \A j \in 1..Len(lines) :
                    /\ out_order[j] + 1 \in Selected
                    /\ out_order[j] + 1 <= Len(segmented)
                    /\ lines[j].text = segmented[out_order[j] + 1] \o Separator
                    /\ IsSpanOf(segmented[out_order[j] + 1], file_path.data)

\* a printed sentence with an upper-case letter and an inner space, in a
\* summary that leaves a sentence out
C9_Witness ==
    /\ pc = "cleanup" /\ out_count >= 2 /\ out_count < nsent
    /\ \E j \in 1..out_count :
          LET sent == sentences[out_order[j] + 1]
          IN  /\ \E x \in 1..Len(sent) : sent[x] \in Range(UpperSeq)
              /\ \E x \in 1..Len(sent) : sent[x] = " "

---------------------------------------------------------------------------
(* C10: the engine is stateless between invocations: summarizing A and     *)
(* then B gives for B the same selected sentences as summarizing B alone,  *)
(* and no vocabulary entry, sentence or score of an earlier call is        *)
(* visible to a later call: the sentences a call has split are spans of    *)
(* its own document, and the vocabulary it has built holds terms of its    *)
(* own document only.                                                      *)
\* records 1 and 3 are B alone and B after A
AfterAnother ==
    /\ Len(log) = 3 /\ log[1].file = log[3].file /\ log[1].depth = log[3].depth
    /\ log[2].file # log[3].file

C10_Stateless ==
    /\ AfterAnother
          => /\ log[3].selected = log[1].selected
             /\ log[3].sentences = log[1].sentences
             /\ log[3].scores = log[1].scores
             /\ SummaryLines(log[3].out) = SummaryLines(log[1].out)
    /\ pc = "vocab"
          => \A j \in 1..nsent : IsSpanOf(sentences[j], file_path.data)
    /\ pc = "idf"
          => LET terms == DocumentTerms
             IN  \A v \in 1..vcount : vocab[v].word \in terms

\* B has been summarized right after a longer A of other terms, in the
\* process that summarized A, and both calls selected sentences
C10_Witness ==
    /\ pc = "idle" /\ AfterAnother
    /\ Len(log[2].sentences) > Len(log[3].sentences)
    /\ Len(log[3].selected) >= 2
    /\ Len(log[2].selected) >= 2
    /\ \E j \in DOMAIN log[3].scores : log[3].scores[j] # ZeroScore

---------------------------------------------------------------------------
(* C11: exceeding a resource bound (sentence count, tokens per sentence,   *)
(* vocabulary size) is never fatal: fish_summary still returns success and *)
(* emits exactly min(K, R) sentences, R being the number of sentences      *)
(* retained up to the bound, all drawn from the retained part of the       *)
(* document and in ascending index order.  The code does not where the     *)
(* retained sentences hold no term and the 0-byte idf table is refused.    *)

\* the document holds more sentences than split_sentences retains
SentenceBoundExceeded ==
    Len(split_sentences(file_path.data \o << NUL >>, MAX_SENTENCES + 1).sentences)
       > MAX_SENTENCES

\* a retained sentence holds more tokens than tokenize_sentence retains
TokenBoundExceeded ==
    \E j \in 1..nsent :
       Len(tokenize_sentence(sentences[j], MAX_WORDS_SENT + 1)) > MAX_WORDS_SENT

\* the retained tokens are more distinct terms than the vocabulary takes
VocabBoundExceeded == Cardinality(DocumentTerms) > MAX_VOCAB

BoundExceeded ==
    SentenceBoundExceeded \/ TokenBoundExceeded \/ VocabBoundExceeded

\* the printed summary is the retained sentences of out_order, ascending
RetainedSummary ==
    /\ ret = 0
    /\ LastCall.stage = "rendered"
    /\ Len(SummaryLines(out)) = Min(SpecifiedK(depth), nsent)
    /\ out_count = Len(SummaryLines(out))
    /\ \A a \in 1..out_count :
          /\ out_order[a] \in 0..(nsent - 1)
          /\ SummaryLines(out)[a].text = sentences[out_order[a] + 1] \o Separator
          /\ IsSpanOf(sentences[out_order[a] + 1], file_path.data)
    /\ \A a, b \in 1..out_count : a < b => out_order[a] < out_order[b]

C11_BoundNotFatal ==
    Returned /\ LastCall.stage # "entry" /\ BoundExceeded => RetainedSummary

\* what does hold: a call over a bound that is not refused its idf table
\* returns success with the summary of the retained sentences
C11_BoundNotFatalIfIdfTable ==
    Returned /\ LastCall.stage # "entry" /\ BoundExceeded
       /\ ~(vcount = 0 /\ malloc0 = "null")
       => RetainedSummary

---------------------------------------------------------------------------
(* C12: whenever a resource bound (sentence count, vocabulary size or      *)
(* per-sentence token count) is exceeded during a call, the condition is   *)
(* reported to the caller as an informational message in that call's       *)
(* output.  The code prints no such message: what it prints is the errors  *)
(* of the entry and of the allocations, the empty-document line, the       *)
(* header, the sentences and the timing line.                              *)

\* the messages of fish_summary, none of which is about a bound
OtherMessages ==
    { "error_null_path", "error_cannot_open", "error_oom", "empty",
      "error_oom_vocab", "error_oom_idf", "header", "sentence", "timing" }

ReportsBound(o) == \E x \in DOMAIN o : o[x].tag \notin OtherMessages

C12_BoundReported ==
    Returned /\ LastCall.stage # "entry" /\ BoundExceeded => ReportsBound(out)

---------------------------------------------------------------------------
(* C13: when the document cannot be obtained (null file path, or a file    *)
(* that cannot be opened) fish_summary reports the problem, returns -1,    *)
(* emits no summary sentence and performs no segmentation, vocabulary      *)
(* building or selection.                                                  *)
Unavailable == file_path.file \in { "null", "missing" }

C13_SourceUnavailable ==
    /\ Unavailable => pc = "idle" /\ Fresh /\ heap = { } /\ ~file_open
    /\ Unavailable /\ Returned
          => /\ ret = -1
             /\ out = << Msg(IF file_path.file = "null"
                             THEN "error_null_path" ELSE "error_cannot_open") >>
             /\ SummaryLines(out) = << >>
             /\ LastCall.stage = "entry"
             /\ LastCall.sentences = << >> /\ LastCall.selected = << >>

\* a call on a path that does not open has returned
C13_Witness ==
    /\ Returned /\ file_path.file = "missing" /\ LastCall.file.file = "missing"
    /\ ret = -1 /\ depth >= 2

---------------------------------------------------------------------------
(* C14: every return path of fish_summary (success, empty input, file that *)
(* does not open, each allocation failure) leaves a clean state: the input *)
(* file is closed and every buffer allocated during the call (content,     *)
(* sentences, term vectors, vocabulary words, vocabulary table, idf table) *)
(* has been freed.  The code does not on the return for a refused          *)
(* vocabulary table, which frees the content and leaves the sentences.     *)
C14_CleanReturn ==
    Returned => heap = { } /\ ~file_open /\ LastCall.leaked = { }

\* what does hold: every return but the one for a refused vocabulary table
\* is clean
C14_CleanReturnButVocab ==
    Returned /\ (\A x \in DOMAIN out : out[x].tag # "error_oom_vocab")
       => heap = { } /\ ~file_open /\ LastCall.leaked = { }

---------------------------------------------------------------------------
(* C15: two invocations of fish_summary running concurrently on different  *)
(* documents share no mutable state: under every interleaving of their     *)
(* steps each selects exactly the sentences, in the same order, that it    *)
(* selects when run alone.                                                 *)

\* records 1 and 2 are the two documents alone, 3 and 4 the concurrent calls
AloneAs(c) == CHOOSE a \in 1..2 : log[a].file = log[c].file

C15_Concurrent ==
    \A c \in DOMAIN log \ (1..2) :
       /\ log[c].selected = log[AloneAs(c)].selected
       /\ log[c].sentences = log[AloneAs(c)].sentences
       /\ SummaryLines(log[c].out) = SummaryLines(log[AloneAs(c)].out)
       /\ log[c].ret = log[AloneAs(c)].ret

\* both invocations are under way: the first thread has selected and
\* printed its summary while the second is in the middle of building its
\* vocabulary
C15_Witness ==
    /\ Len(log) = 2 /\ running = 1 /\ pc = "cleanup"
    /\ out_count >= 3 /\ Len(SummaryLines(out)) = out_count
    /\ parked # << >>
    /\ parked[1].pc = "sentence_end" /\ parked[1].vcount >= 2 /\ parked[1].i >= 1
    /\ parked[1].file_path # file_path

---------------------------------------------------------------------------
(* C16: for every document every term's idf weight is >= 0 and every       *)
(* sentence score is >= 0: scores may be zero but are never negative.      *)
(* As amended: the weight of a term is >= 0 when its document frequency is *)
(* below the sentence count and < 0 when the term is in every sentence,    *)
(* and the score of a sentence none of whose terms is in every sentence is *)
(* >= 0.                                                                   *)
Negative(a) == ScoreGt(ZeroScore, a, nsent)

\* the terms of sentence j, as 1-based vocabulary positions
TermVector(j) ==
    { sent_word_counts[j][z][1] + 1 : z \in 1..Len(sent_word_counts[j]) }

\* the claim as made
C16_NeverNegative ==
    Scored => /\ \A v \in 1..vcount : ~Negative(idf[v])
              /\ \A j \in 1..nsent : ~Negative(sent_score[j])

\* the claim as amended
C16_NegativeOnlyIfEverywhere ==
    Scored =>
       /\ \A v \in 1..vcount :
             /\ vocab[v].df <= nsent
             /\ Negative(idf[v]) <=> vocab[v].df = nsent
       /\ \A j \in 1..nsent :
             (\A v \in TermVector(j) : vocab[v].df < nsent)
                => ~Negative(sent_score[j])

\* a document of two sentences or more with a term in every sentence and
\* a term that is not: its sentences score below zero
C16_Witness ==
    /\ Scored /\ nsent >= 2
    /\ \E v \in 1..vcount : vocab[v].df = nsent
    /\ \E v \in 1..vcount : vocab[v].df < nsent
    /\ \E j \in 1..nsent : Negative(sent_score[j])

---------------------------------------------------------------------------
(* C17: superset monotonicity across depths is not guaranteed: there is a  *)
(* document for which the set of sentence indices selected at depth=3 is   *)
(* not a superset of the set selected at depth=1; only the count bounds    *)
(* hold across depths.  As amended: for every document the set selected at *)
(* a depth contains the set selected at any lower depth, since the greedy  *)
(* rounds of the lower depth are the first rounds of the higher one.       *)

\* the summary every rendered call printed is the one SummaryOf computes
SummaryOfAgrees ==
    Returned /\ LastCall.stage = "rendered"
       => /\ LastCall.selected = SummaryOf(LastCall.file.data, LastCall.depth).selected
          /\ LastCall.sentences = SummaryOf(LastCall.file.data, LastCall.depth).sentences
          /\ LastCall.scores = SummaryOf(LastCall.file.data, LastCall.depth).scores

\* the claim as made, for the documents of the model
C17_SomeDocumentNotSuperset ==
    \E doc \in Docs :
       ~(Range(SummaryOf(doc, 1).selected) \subseteq Range(SummaryOf(doc, 3).selected))

\* the claim as amended
C17_SupersetAcrossDepths ==
    \A a, b \in DOMAIN log :
       log[a].file = log[b].file /\ log[a].depth <= log[b].depth
          => /\ Range(log[a].selected) \subseteq Range(log[b].selected)
             /\ Len(log[a].selected) <= Len(log[b].selected)

\* one document has been summarized at depth 3 and then at depth 1: five
\* sentences and then one of the five
C17_Witness ==
    /\ pc = "idle" /\ Len(log) = 2 /\ log[1].file = log[2].file
    /\ log[1].depth = 3 /\ log[2].depth = 1
    /\ Len(log[1].selected) = 5 /\ Len(log[2].selected) = 1
    /\ Len(log[1].sentences) > 5
    /\ Range(log[2].selected) \subseteq Range(log[1].selected)

---------------------------------------------------------------------------
(* C18: when timing is requested (time_flag set) every invocation that     *)
(* obtains its document and returns success reports an elapsed duration,   *)
(* the measured interval starting before the segmentation and covering     *)
(* segmentation through selection; when timing is not requested no timing  *)
(* report is emitted.  The code returns success without a timing report    *)
(* for a document of no sentence.                                          *)
TimingLines(o) == SelectSeq(o, LAMBDA l : l.tag = "timing")

\* the clock is read before the segmentation and again after the selection:
\* the timing line is the last one, printed by the call that selected
TimingCoversPipeline ==
    /\ pc \in { "split", "vocab", "tokenize", "token", "sentence_end", "idf",
                "score", "choose", "select", "collect", "render", "cleanup" }
          => t0 = (time_flag # 0)
    /\ pc \notin { "idle", "cleanup" } => TimingLines(out) = << >>
    /\ Returned /\ TimingLines(out) # << >>
          => /\ t0 /\ LastCall.stage = "rendered"
             /\ TimingLines(out) = << Msg("timing") >>
             /\ out[Len(out)] = Msg("timing")

C18_TimingReported ==
    /\ Returned /\ file_path.file = "ok" /\ ret = 0 /\ time_flag # 0
          => TimingLines(out) # << >>
    /\ TimingCoversPipeline
    /\ Returned /\ time_flag = 0 => TimingLines(out) = << >>

\* what does hold: the same for every successful call on a document that
\* has a sentence
C18_TimingReportedIfSentences ==
    /\ Returned /\ file_path.file = "ok" /\ ret = 0 /\ time_flag # 0 /\ nsent > 0
          => TimingLines(out) # << >>
    /\ TimingCoversPipeline
    /\ Returned /\ time_flag = 0 => TimingLines(out) = << >>

---------------------------------------------------------------------------
(* C19: after the vocabulary build, for every term document_frequency      *)
(* equals the number of processed sentences whose term vector contains the *)
(* term (one increment per sentence however often the term repeats inside  *)
(* it), and hence document_frequency <= totalSentences.                    *)
Built == pc \in { "idf", "score", "choose", "select", "collect", "render", "cleanup" }

C19_DocumentFrequency ==
    Built =>
       \A v \in 1..vcount :
          /\ vocab[v].df = Cardinality({ j \in 1..nsent : v \in TermVector(j) })
          /\ vocab[v].df <= nsent
          /\ \A j \in 1..nsent :
                v \in TermVector(j)
                   => vocab[v].word \in Range(tokenize_sentence(sentences[j], MAX_WORDS_SENT))

\* the build is over for a document with a term that repeats inside one
\* sentence and occurs in another
C19_Witness ==
    /\ pc = "idf" /\ nsent >= 3
    /\ \E v \in 1..vcount :
          /\ vocab[v].df >= 2 /\ vocab[v].df < vocab[v].tf_total
          /\ vocab[v].df < nsent
          /\ \E j \in 1..nsent, z \in 1..MAX_WORDS_SENT :
                /\ z <= Len(sent_word_counts[j])
                /\ sent_word_counts[j][z] = << v - 1, 2 >>

---------------------------------------------------------------------------
(* C20: every sentence emitted by split_sentences is non-empty, has no     *)
(* leading or trailing whitespace, contains no newline, and contains '.',  *)
(* '?' or '!' only as its final character; whitespace runs and blank lines *)
(* following a boundary produce no sentence.                               *)
InsertAfter(doc, x, ws) == SubSeq(doc, 1, x) \o ws \o SubSeq(doc, x + 1, Len(doc))

BlankRuns == { << " " >>, << "\n" >>, << "\n", "\n" >>, << " ", "\t", "\n", " " >> }

WellFormedSentence(snt) ==
    /\ snt # << >>
    /\ ~isspace(snt[1]) /\ ~isspace(snt[Len(snt)])
    /\ \A x \in 1..Len(snt) : snt[x] # "\n" /\ snt[x] # NUL
    /\ \A x \in 1..(Len(snt) - 1) : snt[x] \notin { ".", "?", "!" }

C20_Segmentation ==
    pc = "vocab" =>
       /\ \A j \in 1..nsent : WellFormedSentence(sentences[j])
       /\ \A x \in 1..Len(file_path.data), ws \in BlankRuns :
             IsBoundary(file_path.data[x])
                => split_sentences(InsertAfter(file_path.data, x, ws) \o << NUL >>,
                                   MAX_SENTENCES).sentences
                      = SubSeq(sentences, 1, nsent)

\* a document of ten sentences has been split: it has a newline right
\* after a full stop, a tab after another, and ends in whitespace
C20_Witness ==
    /\ pc = "vocab" /\ nsent = 10
    /\ \E x \in 1..(Len(file_path.data) - 1) :
          file_path.data[x] = "." /\ file_path.data[x + 1] = "\n"
    /\ \E x \in 1..(Len(file_path.data) - 1) :
          file_path.data[x] = "." /\ file_path.data[x + 1] = "\t"
    /\ file_path.data[Len(file_path.data)] = "\n"

---------------------------------------------------------------------------
(* C21: segmentation loses and reorders no text: when the sentence bound   *)
(* is not reached, the non-whitespace characters of the sentences          *)
(* concatenated in index order are exactly the non-whitespace characters   *)
(* of the document in document order; in particular a non-empty trailing   *)
(* span with no terminating punctuation is emitted as the last sentence.   *)
NonSpace(s) == SelectSeq(s, LAMBDA c : ~isspace(c))

\* sents[1] \o ... \o sents[n]
RECURSIVE Concat(_, _)
Concat(sents, n) == IF n = 0 THEN << >> ELSE Concat(sents, n - 1) \o sents[n]

\* what follows the last boundary character of doc
TrailingSpan(doc) ==
    LET bs == { x \in 1..Len(doc) : IsBoundary(doc[x]) }
        x0 == IF bs = { } THEN 0 ELSE CHOOSE x \in bs : \A y \in bs : y <= x
    IN  SubSeq(doc, x0 + 1, Len(doc))

\* s from its first to its last non-whitespace character
Stripped(s) ==
    LET ns == { x \in 1..Len(s) : ~isspace(s[x]) }
    IN  IF ns = { } THEN << >>
        ELSE SubSeq(s, CHOOSE x \in ns : \A y \in ns : x <= y,
                       CHOOSE x \in ns : \A y \in ns : y <= x)

\* split_sentences has returned (with no sentence, fish_summary returns)
Segmented ==
    \/ pc = "vocab"
    \/ Returned /\ LastCall.stage = "split" /\ nsent = 0

C21_NoTextLost ==
    Segmented /\ nsent < MAX_SENTENCES
       => /\ NonSpace(Concat(sentences, nsent)) = NonSpace(file_path.data)
          /\ Stripped(TrailingSpan(file_path.data)) # << >>
                => /\ nsent >= 1
                   /\ sentences[nsent] = Stripped(TrailingSpan(file_path.data))

\* several sentences, fewer than the bound, and then a span that nothing
\* terminates and that whitespace surrounds
C21_Witness ==
    /\ pc = "vocab" /\ nsent > 1 /\ nsent < MAX_SENTENCES
    /\ Stripped(TrailingSpan(file_path.data)) # << >>
    /\ Len(TrailingSpan(file_path.data)) > Len(Stripped(TrailingSpan(file_path.data)))
    /\ sentences[nsent] = Stripped(TrailingSpan(file_path.data))

---------------------------------------------------------------------------
(* C22: the document is immutable once loaded: after split_sentences       *)
(* returns, the content buffer holds exactly the characters it held when   *)
(* segmentation started (the terminator written at each boundary is        *)
(* restored and trimming changes nothing in the document), and the emitted *)
(* sentence strings are not modified by any later stage.  The code does    *)
(* not leave the buffer as it was: trim writes terminators over the        *)
(* whitespace that ends a span, and only the one after the boundary is     *)
(* restored.                                                               *)

\* the buffer as the read leaves it (summary.c:134-135)
Loaded ==
    LET r == IF Len(file_path.data) < MAX_INPUT_SIZE - 1
             THEN Len(file_path.data) ELSE MAX_INPUT_SIZE - 1
    IN  SubSeq(file_path.data, 1, r) \o << NUL >>

\* split_sentences has returned and the call has not
AfterSplit ==
    pc \in { "vocab", "tokenize", "token", "sentence_end", "idf", "score",
             "choose", "select", "collect", "render", "cleanup" }

\* the sentences are those the segmentation emitted
SentencesReadOnly ==
    AfterSplit
       => SubSeq(sentences, 1, nsent) = split_sentences(Loaded, MAX_SENTENCES).sentences

C22_DocumentImmutable ==
    /\ AfterSplit => content = Loaded
    /\ SentencesReadOnly

\* what does hold: the buffer differs from the document only where a
\* whitespace character of the document was overwritten with a terminator,
\* and the sentences are never written again
C22_OnlyWhitespaceOverwritten ==
    /\ AfterSplit
          => /\ Len(content) = Len(Loaded)
             /\ \A x \in 1..Len(content) :
                   content[x] # Loaded[x] => isspace(Loaded[x]) /\ content[x] = NUL
    /\ SentencesReadOnly

---------------------------------------------------------------------------
(* C23: tokenize_sentence returns, in order, one token per maximal run of  *)
(* alphanumeric characters of the sentence, up to the per-sentence token   *)
(* bound: every token is non-empty, consists only of alphanumeric          *)
(* characters, contains no upper-case letter, and a run that reaches the   *)
(* end of the string is flushed as a final token.                          *)

\* where the maximal alphanumeric runs of s start
RunStarts(s) ==
    { x \in 1..Len(s) : isalnum(s[x]) /\ (x = 1 \/ ~isalnum(s[x - 1])) }

\* the n-th maximal alphanumeric run of s
Run(s, n) ==
    LET S == RunStarts(s)
        x == CHOOSE a \in S : Cardinality({ b \in S : b < a }) = n - 1
        y == CHOOSE b \in x..Len(s) :
                /\ \A c \in x..b : isalnum(s[c])
                /\ b = Len(s) \/ ~isalnum(s[b + 1])
    IN  SubSeq(s, x, y)

LowerCased(s) == [ x \in 1..Len(s) |-> tolower(s[x]) ]

\* w is the token of the run r
TokenOfRun(w, r) ==
    LowerCased(SubSeq(r, 1, Min(Len(r), MAX_WORD_LEN - 1))) = w

\* tokens holds the tokens of sentence i
Tokenized == pc \in { "token", "sentence_end" }

C23_Tokens ==
    Tokenized =>
       /\ tw = Len(tokens)
       /\ tw = Min(Cardinality(RunStarts(sentences[i + 1])), MAX_WORDS_SENT)
       /\ \A x \in 1..tw :
             /\ tokens[x] # << >>
             /\ \A y \in 1..Len(tokens[x]) :
                   isalnum(tokens[x][y]) /\ tokens[x][y] \notin Range(UpperSeq)
             /\ TokenOfRun(tokens[x], Run(sentences[i + 1], x))

\* a sentence of several runs, the first with an upper-case letter, the
\* last reaching the end of the string and flushed as the last token
C23_Witness ==
    /\ pc = "token" /\ tw >= 2 /\ tw < MAX_WORDS_SENT
    /\ sentences[i + 1][1] \in Range(UpperSeq)
    /\ isalnum(sentences[i + 1][Len(sentences[i + 1])])
    /\ TokenOfRun(tokens[tw], Run(sentences[i + 1], tw))
    /\ Cardinality(RunStarts(sentences[i + 1])) = tw

---------------------------------------------------------------------------
(* C24: an alphanumeric run longer than MAX_WORD_LEN-1 characters yields   *)
(* exactly one token, equal to the lower-cased first MAX_WORD_LEN-1        *)
(* characters of the run; the remaining characters of the run are          *)
(* discarded and do not start a further token, so two runs sharing their   *)
(* first MAX_WORD_LEN-1 characters map to the same term.                   *)

\* the runs of sentence j that tokenize_sentence reaches
RunsOf(j) ==
    { Run(sentences[j], n) :
         n \in 1..Min(Cardinality(RunStarts(sentences[j])), MAX_WORDS_SENT) }

LongRun(r) == Len(r) > MAX_WORD_LEN - 1

Truncated(r) == LowerCased(SubSeq(r, 1, MAX_WORD_LEN - 1))

C24_Truncation ==
    /\ Tokenized =>
          /\ tw = Min(Cardinality(RunStarts(sentences[i + 1])), MAX_WORDS_SENT)
          /\ \A x \in 1..tw :
                LongRun(Run(sentences[i + 1], x))
                   => /\ tokens[x] = Truncated(Run(sentences[i + 1], x))
                      /\ Len(tokens[x]) = MAX_WORD_LEN - 1
    /\ pc = "idf" =>
          LET long == [ j \in 1..nsent |->
                          { Truncated(r) : r \in { q \in RunsOf(j) : LongRun(q) } } ]
          IN  \A j1, j2 \in 1..nsent :
                 \A w \in long[j1] \cap long[j2] :
                    /\ Cardinality({ v \in 1..vcount : vocab[v].word = w }) <= 1
                    /\ vcount < MAX_VOCAB
                          => \E v \in 1..vcount :
                                /\ vocab[v].word = w
                                /\ v \in TermVector(j1) \cap TermVector(j2)

\* two sentences with one long run each: the runs differ, by case and
\* after MAX_WORD_LEN - 1 characters, and are one term of the vocabulary
C24_Witness ==
    /\ pc = "idf" /\ nsent >= 2
    /\ \E r1 \in RunsOf(1), r2 \in RunsOf(2) :
          /\ LongRun(r1) /\ LongRun(r2) /\ r1 # r2
          /\ LowerCased(r1) # LowerCased(r2)
          /\ Truncated(r1) = Truncated(r2)
          /\ \E v \in 1..vcount : vocab[v].word = Truncated(r1) /\ vocab[v].df = 2

---------------------------------------------------------------------------
(* C25: at every point of the vocabulary build the vocabulary holds one    *)
(* entry per distinct term seen so far: no two entries have the same term  *)
(* string, an existing entry's index never changes, entries are only       *)
(* appended (in first-occurrence order), and the same normalized token     *)
(* always resolves to the same term index within one invocation.           *)

\* the vocabulary build is under way or just over
Building == pc \in { "tokenize", "token", "sentence_end", "idf" }

\* s without the repetitions of its first n elements, in first-occurrence order
RECURSIVE FirstOccurrences(_, _)
FirstOccurrences(s, n) ==
    IF n = 0 THEN << >>
    ELSE LET d == FirstOccurrences(s, n - 1)
         IN  IF s[n] \in Range(d) THEN d ELSE Append(d, s[n])

\* the tokens the build has looked at: those of the sentences before
\* sentence i and those of sentence i up to token t
SeenTokens ==
    Concat([ j \in 1..i |-> tokenize_sentence(sentences[j], MAX_WORDS_SENT) ], i)
       \o (IF pc = "token" THEN SubSeq(tokens, 1, t)
           ELSE IF pc = "sentence_end" THEN tokens ELSE << >>)

\* the terms of the table, in index order
Words == [ v \in 1..vcount |-> vocab[v].word ]

\* one entry per distinct term seen, in first-occurrence order, as far as
\* the table goes
OneEntryPerTerm ==
    Building =>
       LET first == FirstOccurrences(SeenTokens, Len(SeenTokens))
       IN  /\ vcount = Min(Len(first), MAX_VOCAB)
           /\ Words = SubSeq(first, 1, vcount)
           /\ \A v1, v2 \in 1..vcount : v1 # v2 => vocab[v1].word # vocab[v2].word
           /\ pc = "token" =>
                 \A x \in 1..t :
                    /\ vocab_find(vocab, vcount, tokens[x]) >= 0
                    /\ \E z \in 1..Len(idx_list) :
                          idx_list[z] = vocab_find(vocab, vcount, tokens[x])

\* a step of the build keeps every entry at its index and appends at most one
AppendOnly ==
    Building /\ pc' # "idle"
       => /\ vcount' \in { vcount, vcount + 1 }
          /\ \A v \in 1..vcount : vocab'[v].word = vocab[v].word
          /\ \A v \in 1..vcount :
                vocab_find(vocab', vcount', vocab[v].word) = v - 1

C25_Vocabulary == [] OneEntryPerTerm /\ [][AppendOnly]_vars

\* in the middle of a sentence the table holds several terms, one of them
\* seen in an earlier sentence and again in this one
C25_Witness ==
    /\ pc = "token" /\ i >= 1 /\ t >= 1 /\ vcount >= 3 /\ vcount < MAX_VOCAB
    /\ vcount < Len(SeenTokens)
    /\ \E x \in 1..t : vocab_find(vocab, vcount, tokens[x]) < vcount - 1
                       /\ vocab[vocab_find(vocab, vcount, tokens[x]) + 1].df >= 1

---------------------------------------------------------------------------
(* C26: each sentence's term vector lists pairwise distinct term indices,  *)
(* each with an in-sentence count >= 1, only for terms present in that     *)
(* sentence, and the counts sum to the number of tokens counted for the    *)
(* sentence; for every term, total_occurrences equals the sum of its       *)
(* in-sentence counts over all sentences.                                  *)

\* the sum of the counts of a list of (vidx, count) pairs
RECURSIVE SumCounts(_, _)
SumCounts(pairs, n) == IF n = 0 THEN 0 ELSE SumCounts(pairs, n - 1) + pairs[n][2]

\* the count the pairs give to the 0-based index vidx, 0 if they do not list it
CountIn(pairs, vidx) ==
    IF \E z \in 1..Len(pairs) : pairs[z][1] = vidx
    THEN pairs[CHOOSE z \in 1..Len(pairs) : pairs[z][1] = vidx][2]
    ELSE 0

\* the pairs are the term vector of the first n tokens of toks
IsVectorOf(pairs, toks, n) ==
    /\ \A z1, z2 \in 1..Len(pairs) : z1 # z2 => pairs[z1][1] # pairs[z2][1]
    /\ SumCounts(pairs, Len(pairs)) = n
    /\ n <= Len(toks)
    /\ \A z \in 1..Len(pairs) :
          /\ pairs[z][1] \in 0..(vcount - 1)
          /\ pairs[z][2] >= 1
          /\ pairs[z][2] = Cardinality({ x \in 1..n :
                                          toks[x] = vocab[pairs[z][1] + 1].word })

RECURSIVE SumOverSentences(_, _)
SumOverSentences(vidx, n) ==
    IF n = 0 THEN 0
    ELSE SumOverSentences(vidx, n - 1) + CountIn(sent_word_counts[n], vidx)

C26_TermVectors ==
    /\ pc = "sentence_end" =>
          /\ IsVectorOf([ z \in 1..Len(idx_list) |-> << idx_list[z], count_list[z] >> ],
                        tokens, t)
          /\ Len(count_list) = Len(idx_list)
          /\ vcount < MAX_VOCAB => t = tw
    /\ pc = "idf" =>
          /\ \A j \in 1..nsent :
                LET toks == tokenize_sentence(sentences[j], MAX_WORDS_SENT)
                    n    == SumCounts(sent_word_counts[j], Len(sent_word_counts[j]))
                IN  /\ IsVectorOf(sent_word_counts[j], toks, n)
                    /\ vcount < MAX_VOCAB => n = Len(toks)
          /\ \A v \in 1..vcount :
                vocab[v].tf_total = SumOverSentences(v - 1, nsent)

\* the build is over for a document with a sentence of three tokens and two
\* terms, one of them also in another sentence
C26_Witness ==
    /\ pc = "idf" /\ nsent >= 2 /\ vcount < MAX_VOCAB
    /\ \E j \in 1..nsent :
          /\ Len(sent_word_counts[j]) = 2
          /\ SumCounts(sent_word_counts[j], 2) = 3
          /\ \E z \in 1..2 :
                vocab[sent_word_counts[j][z][1] + 1].tf_total > sent_word_counts[j][z][2]

---------------------------------------------------------------------------
(* C27: each sentence's score equals the sum, over the pairs of its term   *)
(* vector, of (in-sentence count x idf(term)) with idf(term) =             *)
(* ln(totalSentences / (1 + document_frequency(term))), where              *)
(* totalSentences counts every segmented sentence including those with no  *)
(* tokens; the denominator is never zero and a sentence with no tokens     *)
(* scores exactly 0.                                                       *)

\* the product over the pairs of (1 + df of the term) ^ count
RECURSIVE Denominator(_, _)
Denominator(pairs, n) ==
    IF n = 0 THEN 1
    ELSE Denominator(pairs, n - 1) * Pow(1 + vocab[pairs[n][1] + 1].df, pairs[n][2])

\* sum of count * ln(N / (1 + df)) = ln(N ^ (sum of counts) / product)
ExpectedScore(j) ==
    [n |-> SumCounts(sent_word_counts[j], Len(sent_word_counts[j])),
     d |-> Denominator(sent_word_counts[j], Len(sent_word_counts[j]))]

C27_Score ==
    /\ pc = "choose" =>
          /\ nsent = Len(split_sentences(Loaded, MAX_SENTENCES).sentences)
          /\ \A v \in 1..vcount :
                idf[v] = [n |-> 1, d |-> 1 + vocab[v].df] /\ 1 + vocab[v].df > 0
          /\ \A j \in 1..nsent :
                /\ sent_score[j] = ExpectedScore(j)
                /\ tokenize_sentence(sentences[j], MAX_WORDS_SENT) = << >>
                      => sent_score[j] = ZeroScore
    /\ pc = "collect" =>
          \A s \in Selected, u \in Unselected :
             ~ScoreGt(ExpectedScore(u), ExpectedScore(s),
                      Len(split_sentences(Loaded, MAX_SENTENCES).sentences))

\* scores are computed for a document with a sentence of no token, a
\* sentence in which a term repeats, and a term in several sentences
C27_Witness ==
    /\ pc = "choose" /\ nsent >= 3
    /\ \E j \in 1..nsent : sent_word_counts[j] = << >> /\ sent_score[j] = ZeroScore
    /\ \E j \in 1..nsent, z \in 1..MAX_WORDS_SENT :
          /\ z <= Len(sent_word_counts[j])
          /\ sent_word_counts[j][z][2] >= 2
          /\ vocab[sent_word_counts[j][z][1] + 1].df >= 2
          /\ sent_score[j].n >= 3

---------------------------------------------------------------------------
(* C28: stages run strictly in order: no IDF weight or sentence score is   *)
(* computed before every retained sentence has been tokenized and counted, *)
(* selection starts only after every score is computed, and no vocabulary  *)
(* entry (term, document_frequency, total_occurrences) nor the vocabulary  *)
(* size changes during scoring, selection or rendering.                    *)

\* the stage a position of the call belongs to
Stage(p) ==
    CASE p = "read" -> 0
      [] p = "split" -> 1
      [] p \in { "vocab", "tokenize", "token", "sentence_end" } -> 2
      [] p \in { "idf", "score" } -> 3
      [] p \in { "choose", "select", "collect" } -> 4
      [] p = "render" -> 5
      [] p = "cleanup" -> 6

\* a step inside one call
InCall == pc # "idle" /\ pc' # "idle"

StagesInOrder ==
    /\ InCall => Stage(pc') >= Stage(pc)
    /\ InCall /\ Stage(pc) = 2 /\ Stage(pc') = 3
          => /\ i' = nsent
             /\ \A j \in 1..nsent :
                   IsVectorOf(sent_word_counts'[j],
                              tokenize_sentence(sentences[j], MAX_WORDS_SENT),
                              SumCounts(sent_word_counts'[j], Len(sent_word_counts'[j])))
    /\ InCall /\ idf' # idf => pc = "idf"
    /\ InCall /\ sent_score' # sent_score => pc = "score"
    /\ InCall /\ Stage(pc) = 3 /\ Stage(pc') = 4
          => \A j \in 1..nsent : sent_score'[j] = ExpectedScore(j)
    /\ InCall /\ << K, k, best, selected_idx >>' # << K, k, best, selected_idx >>
          => Stage(pc) = 4
    /\ pc # "idle" /\ Stage(pc) >= 3 => UNCHANGED << vocab, vcount >>

C28_StageOrder == [][StagesInOrder]_vars

\* a call that built a vocabulary of several terms in several sentences,
\* selected more than one sentence and is about to free its tables
C28_Witness ==
    /\ pc = "cleanup" /\ nsent >= 3 /\ vcount >= 3 /\ i = nsent
    /\ k >= 2 /\ out_count >= 2
    /\ \A j \in 1..nsent : sent_score[j] = ExpectedScore(j)

---------------------------------------------------------------------------
(* C29: for every vocabulary term, 1 <= document_frequency <=              *)
(* totalSentences, and idf(term) is negative exactly when the term occurs  *)
(* in every sentence (document_frequency = totalSentences), zero exactly   *)
(* when document_frequency = totalSentences - 1, and positive otherwise;   *)
(* consequently a sentence can have a negative score only if it contains a *)
(* term that occurs in every sentence.                                     *)
Positive(a) == ScoreGt(a, ZeroScore, nsent)

\* the sentences whose tokens include the word of entry v
SentencesWith(v) ==
    { j \in 1..nsent :
         vocab[v].word \in Range(tokenize_sentence(sentences[j], MAX_WORDS_SENT)) }

C29_IdfSign ==
    pc = "choose" =>
       /\ \A v \in 1..vcount :
             /\ 1 <= vocab[v].df /\ vocab[v].df <= nsent
             /\ Negative(idf[v]) <=> vocab[v].df = nsent
             /\ ScoreEq(idf[v], ZeroScore, nsent) <=> vocab[v].df = nsent - 1
             /\ Positive(idf[v]) <=> vocab[v].df < nsent - 1
             /\ vocab[v].df = nsent => SentencesWith(v) = 1..nsent
       /\ \A j \in 1..nsent :
             Negative(sent_score[j])
                => \E v \in TermVector(j) : SentencesWith(v) = 1..nsent

\* two sentences or more, a term in every sentence and a term in all but
\* one: a negative and a zero weight, and a sentence that scores below zero
C29_Witness ==
    /\ pc = "choose" /\ nsent >= 2
    /\ \E v \in 1..vcount : vocab[v].df = nsent /\ Negative(idf[v])
    /\ \E v \in 1..vcount : vocab[v].df = nsent - 1 /\ ScoreEq(idf[v], ZeroScore, nsent)
    /\ \E j \in 1..nsent : Negative(sent_score[j])

---------------------------------------------------------------------------
(* C30: once the vocabulary holds MAX_VOCAB terms, a token that is not in  *)
(* the vocabulary ends the processing of its sentence: the tokens of that  *)
(* sentence before it are counted (total_occurrences, term vector and      *)
(* document_frequency), that token and every later token of the sentence   *)
(* are ignored even when they are known terms, no vocabulary entry is      *)
(* added, and every following sentence is still processed under the same   *)
(* rule.                                                                   *)

\* how many tokens of toks come before the first that the table does not hold
Counted(toks) ==
    LET unknown == { x \in 1..Len(toks) : toks[x] \notin Range(Words) }
    IN  IF unknown = { } THEN Len(toks)
        ELSE (CHOOSE x \in unknown : \A y \in unknown : x <= y) - 1

\* the token loop is at a token that a full table does not hold
Refusing ==
    pc = "token" /\ vcount = MAX_VOCAB /\ tokens[t + 1] \notin Range(Words)

FullTableInvariant ==
    /\ vcount <= MAX_VOCAB
    /\ pc = "sentence_end" =>
          /\ t = Counted(tokens)
          /\ t < tw => vcount = MAX_VOCAB
          /\ IsVectorOf([ z \in 1..Len(idx_list) |-> << idx_list[z], count_list[z] >> ],
                        tokens, t)
    /\ pc = "idf" =>
          /\ i = nsent
          /\ \A j \in 1..nsent :
                LET toks == tokenize_sentence(sentences[j], MAX_WORDS_SENT)
                IN  IsVectorOf(sent_word_counts[j], toks, Counted(toks))
          /\ \A v \in 1..vcount :
                /\ vocab[v].df = Cardinality({ j \in 1..nsent : v \in TermVector(j) })
                /\ vocab[v].tf_total = SumOverSentences(v - 1, nsent)

FullTableStep ==
    /\ Refusing
          => /\ pc' = "sentence_end"
             /\ UNCHANGED << vocab, vcount, idx_list, count_list, unique_indices, t >>
    /\ pc = "sentence_end"
          => /\ vcount' = vcount /\ Words' = Words
             /\ i' = i + 1
             /\ i + 1 < nsent => pc' = "tokenize"
             /\ \A v \in 1..vcount :
                   vocab'[v].df = vocab[v].df
                                    + (IF \E z \in 1..Len(idx_list) : idx_list[z] = v - 1
                                       THEN 1 ELSE 0)

C30_VocabularyFull == [] FullTableInvariant /\ [][FullTableStep]_vars

\* the build is over: a sentence of three tokens had its first counted, its
\* second refused by the full table and its third, a known term, ignored,
\* and a later sentence had a token counted
C30_Witness ==
    /\ pc = "idf" /\ vcount = MAX_VOCAB
    /\ \E j \in 1..nsent :
          LET toks == tokenize_sentence(sentences[j], MAX_WORDS_SENT)
          IN  /\ Len(toks) = 3 /\ Counted(toks) = 1
              /\ toks[3] \in Range(Words)
              /\ Len(sent_word_counts[j]) = 1
              /\ \E y \in (j + 1)..nsent : Len(sent_word_counts[y]) >= 1

===========================================================================
